---------------------------- MODULE Spec2Model ----------------------------
(***************************************************************************)
(* perf-goblin: the multiple-choice knapsack solver (knapsack.h) over the  *)
(* scalar and the normal economy (economy.h), the registration of settings *)
(* with goblins (goblin.h), the profile and its accumulators (profile.h),  *)
(* and the controller's harvest, decide and update (goblin.h).             *)
(*                                                                         *)
(* Numbers.  Burdens, values and capacities are floats in the source; the  *)
(* model uses integers, on which the sums and differences of floats are    *)
(* exact.  The score ceil((value - value_min) * (precision /                *)
(* max_value_range)) divides and multiplies in float, and the model rounds *)
(* both to a significand of 24 bits.  Infinity is the absorbing element    *)
(* Inf.  Variances are nonnegative and finite, every decision has at least *)
(* one option.                                                             *)
(*                                                                         *)
(* Indices.  choice, choice_min and choice_high are 0-based as in the      *)
(* source; options[i] of the source is options[i + 1] here.                *)
(*                                                                         *)
(* The profile (profile.h) and the controller (goblin.h) divide, so their  *)
(* floats are exact rationals <<numerator, denominator>> with the IEEE     *)
(* special values: x/0 is an infinity, 0/0 and inf*0 are NaN, and every    *)
(* comparison with NaN is false.                                           *)
(***************************************************************************)
EXTENDS Integers, Sequences, FiniteSets, TLC

(***************************************************************************)
(* Bounds of the explored inputs.                                          *)
(***************************************************************************)
MaxDecisions == 2
MaxOptions == 2
MaxLimit == 3

(***************************************************************************)
(* Program constants.                                                      *)
(***************************************************************************)
Inf == 20000
NO_CHOICE == 65535
MinPrecision == 4

NULL == "null"

VARIABLES
    economy,      \* Knapsack_::economy: "scalar" or "normal"
    decision,     \* the Decision objects, by identity: id -> Decision
    decisions,    \* Knapsack_::decisions, the vector of Decision pointers
    capacity,     \* argument of decide()
    precision,    \* argument of decide(), clamped by decide()
    stats,        \* Knapsack_::stats (chosen, highest, lightest, scale)
    minimums,     \* Knapsack_::minimums (store, row_end)
    solution,     \* decide(): the local Minimum walked by the reconstruction
    index,        \* decide(): the local i of the reconstruction
    result,       \* what decide() returned: NULL before it returns
    pc,           \* position inside decide()
    settings,     \* Goblin_::settings, per goblin the registered settings
    goblin_of,    \* Setting_::_goblin, per setting
    alive,        \* the goblins and settings that are constructed
    add_result,   \* what the last Goblin_::add returned
    last_call,    \* the last call on the registry and the owner it found
    accum,        \* two burden_stat_t objects and what was done to them
    profile,      \* Goblin_::_profile, a Profile_
    past,         \* Goblin_::_past, a Profile_
    probe,        \* the last call on the profiles, its arguments and result
    anomaly,      \* Goblin_::_anomaly
    queue,        \* per setting, the measurements that measurement() will return
    choice_current,  \* per setting, the choice that choice_set stored last
    decision_choice, \* per setting, Decision_t::choice in Goblin_::settings
    todo,         \* the statements of update() that are still to run
    upd,          \* the update in progress: its arguments and what it did
    config        \* Goblin_::config

vars == <<economy, decision, decisions, capacity, precision, stats, minimums,
          solution, index, result, pc, settings, goblin_of, alive, add_result,
          last_call, accum, profile, past, probe, anomaly, queue,
          choice_current, decision_choice, todo, upd, config>>

knapsack_vars == <<economy, decision, decisions, capacity, precision, stats,
                   minimums, solution, index, result, pc>>

registry_vars == <<settings, goblin_of, alive, add_result, last_call>>

stat_vars == <<accum>>

profile_vars == <<profile, past, probe>>

goblin_vars == <<anomaly, queue, choice_current, decision_choice, todo, upd,
                 config>>

---------------------------------------------------------------------------
(***************************************************************************)
(* Economies (economy.h).  A scalar burden is a number; a normal burden is *)
(* a record [mean, var]; a normal capacity is a record [limit, sigmas].    *)
(***************************************************************************)
Max(a, b) == IF a >= b THEN a ELSE b

\* float addition where infinity absorbs
fadd(a, b) == IF a >= Inf \/ b >= Inf THEN Inf ELSE a + b

\* std::ceil of the exact quotient n / d, d > 0
ceil(n, d) == -((-n) \div d)

zero(econ) == IF econ = "scalar" THEN 0 ELSE [mean |-> 0, var |-> 0]

infinite(econ) == IF econ = "scalar" THEN Inf ELSE [mean |-> Inf, var |-> 0]

burden_add(econ, a, b) ==
    IF econ = "scalar" THEN fadd(a, b)
    ELSE [mean |-> fadd(a.mean, b.mean), var |-> fadd(a.var, b.var)]

scalar_lesser(lhs, rhs) == lhs < rhs

scalar_acceptable(lhs, rhs) == lhs < rhs

scalar_is_possible(burden) == scalar_acceptable(burden, Inf)

normal_is_possible(burden) ==
    scalar_is_possible(burden.mean) /\ scalar_is_possible(burden.var)

\* "we order by mean"
normal_lesser(lhs, rhs) == scalar_lesser(lhs.mean, rhs.mean)

\* (mean + E*sqrt(var)) < limit  ==>  E^2*var < (limit-mean)^2
normal_acceptable(burden, capac) ==
    IF ~scalar_acceptable(burden.mean, capac.limit) THEN FALSE
    ELSE LET margin == capac.limit - burden.mean
         IN  scalar_lesser(capac.sigmas * capac.sigmas * burden.var,
                           margin * margin)

is_possible(econ, burden) ==
    IF econ = "scalar" THEN scalar_is_possible(burden)
    ELSE normal_is_possible(burden)

lesser(econ, lhs, rhs) ==
    IF econ = "scalar" THEN scalar_lesser(lhs, rhs)
    ELSE normal_lesser(lhs, rhs)

acceptable(econ, burden, capac) ==
    IF econ = "scalar" THEN scalar_acceptable(burden, capac)
    ELSE normal_acceptable(burden, capac)

(***************************************************************************)
(* The solver's test of a net burden against the capacity.  knapsack.h     *)
(* takes the capacity as a burden_t and writes economy.lesser(burden,      *)
(* capacity): that is the scalar economy.  The normal economy of economy.h *)
(* has a capacity_t (limit, sigmas) which Goblin_::decide hands to the     *)
(* solver; the revision of the solver that takes it tests                  *)
(* acceptable(burden, capacity).                                           *)
(***************************************************************************)
\* the capacity test with <= in place of <
within_capacity_or_equal(burden, capac) == burden <= capac

within_capacity_scalar(burden, capac) == scalar_lesser(burden, capac)

within_capacity_normal(burden, capac) == normal_acceptable(burden, capac)

within_capacity(econ, burden, capac) ==
    IF econ = "scalar" THEN within_capacity_scalar(burden, capac)
    ELSE within_capacity_normal(burden, capac)

---------------------------------------------------------------------------
(***************************************************************************)
(* Knapsack_ (knapsack.h): Option, Decision, Stats, Minimum.               *)
(***************************************************************************)
Option(b, v) == [burden |-> b, value |-> v, score |-> 0]

possible(econ, option) == is_possible(econ, option.burden)

Decision(options) ==
    [options |-> options, choice |-> 0, choice_min |-> 0, choice_high |-> 0]

option_count(d) == Len(d.options)

chosen(d) == d.options[d.choice + 1]

option_min(d) == d.options[d.choice_min + 1]

option_high(d) == d.options[d.choice_high + 1]

Stats(econ) == [net_burden |-> zero(econ), net_value |-> 0, net_score |-> 0]

\* Stats::operator+=
stats_add(econ, s, o) ==
    [net_burden |-> burden_add(econ, s.net_burden, o.burden),
     net_value  |-> s.net_value + o.value,
     net_score  |-> s.net_score + o.score]

Minimum(econ) ==
    [net_score |-> 0, net_burden |-> infinite(econ), choice |-> NO_CHOICE]

valid(m) == m.choice # NO_CHOICE

\* consider that takes every alternative
consider_latest(econ, m, other) == other

\* Minimum::consider: update with an alternative, if it is lighter
consider(econ, m, other) ==
    IF lesser(econ, other.net_burden, m.net_burden) THEN other ELSE m

---------------------------------------------------------------------------
(***************************************************************************)
(* Knapsack_::_prepare.                                                    *)
(***************************************************************************)
SetMax(S) == CHOOSE x \in S : \A y \in S : y <= x

\* the first pass with the comparison of the burdens turned around
heaviest_index(econ, options) ==
    LET f[k \in 1..Len(options)] ==
            IF k = 1 THEN 0
            ELSE IF lesser(econ, options[f[k-1] + 1].burden, options[k].burden)
                 THEN k - 1
                 ELSE f[k-1]
    IN  f[Len(options)]

\* first pass, inner loop: the index kept in choice_min
lightest_index(econ, options) ==
    LET f[k \in 1..Len(options)] ==
            IF k = 1 THEN 0
            ELSE IF lesser(econ, options[k].burden, options[f[k-1] + 1].burden)
                 THEN k - 1
                 ELSE f[k-1]
    IN  f[Len(options)]

\* first pass, inner loop: the values max_value ranges over (none: -infinity)
possible_values(econ, options) ==
    {options[k].value : k \in {j \in 1..Len(options) : possible(econ, options[j])}}

\* first pass: max_value - light_value of every decision that has a possible
\* option, folded with std::max from 0, and "if (max_value_range <= 0) ... = 1"
max_value_range(econ, dec, order) ==
    LET ranges == {SetMax(possible_values(econ, dec[order[n]].options))
                     - dec[order[n]].options[
                           lightest_index(econ, dec[order[n]].options) + 1].value :
                   n \in {m \in 1..Len(order) :
                            possible_values(econ, dec[order[m]].options) # {}}}
        range  == SetMax(ranges \cup {0})
    IN  IF range <= 0 THEN 1 ELSE range

\* value_t is float: a significand of 24 bits
Significand == 2^24

\* the integer nearest to n / d, the even one of two equally near; n >= 0
nearest_even(n, d) ==
    LET q == n \div d
        r == n % d
    IN  IF 2 * r > d \/ (2 * r = d /\ q % 2 = 1) THEN q + 1 ELSE q

\* value_to_score_scale = precision / max_value_range in value_t: the float
\* <<m, e>> = m * 2^e nearest to n / d, for 0 < n / d < 2^24
float_quotient(n, d) ==
    LET up[k \in 0..31] ==
            IF n * 2^k >= (Significand \div 2) * d THEN k ELSE up[k + 1]
        m == nearest_even(n * 2^up[0], d)
    IN  IF m = Significand THEN <<Significand \div 2, 1 - up[0]>> ELSE <<m, -up[0]>>

\* (option.value - value_min) * value_to_score_scale in value_t: the float
\* nearest to the product of the integer x and the float f
float_product(x, f) ==
    LET a == (IF x < 0 THEN -x ELSE x) * f[1]
        down[k \in 0..8] == IF a \div 2^k < Significand THEN k ELSE down[k + 1]
        m == nearest_even(a, 2^down[0])
        s == IF x < 0 THEN -1 ELSE 1
    IN  IF m = Significand THEN <<s * (Significand \div 2), f[2] + down[0] + 1>>
        ELSE <<s * m, f[2] + down[0]>>

\* std::ceil of the float <<m, e>>
float_ceil(f) == IF f[2] >= 0 THEN f[1] * 2^f[2] ELSE ceil(f[1], 2^(-f[2]))

\* second pass: option.score = ceil((option.value - value_min) * scale)
scored(options, value_min, prec, range) ==
    LET scale == float_quotient(prec, range)
    IN  [k \in 1..Len(options) |->
            [options[k] EXCEPT
                !.score = float_ceil(float_product(options[k].value - value_min, scale))]]

\* the second pass keeping the last of the options that share the high score
highest_index_last(econ, options) ==
    LET f[k \in 0..Len(options)] ==
            IF k = 0 THEN <<0, -1>>
            ELSE IF options[k].score >= f[k-1][2] /\ possible(econ, options[k])
                 THEN <<k - 1, options[k].score>>
                 ELSE f[k-1]
    IN  f[Len(options)][1]

\* second pass, inner loop: the index kept in choice_high
highest_index(econ, options) ==
    LET f[k \in 0..Len(options)] ==
            IF k = 0 THEN <<0, -1>>
            ELSE IF options[k].score > f[k-1][2] /\ possible(econ, options[k])
                 THEN <<k - 1, options[k].score>>
                 ELSE f[k-1]
    IN  f[Len(options)][1]

prepare_decision(econ, d, prec, range) ==
    LET cmin    == lightest_index(econ, d.options)
        options == scored(d.options, d.options[cmin + 1].value, prec, range)
    IN  [d EXCEPT !.options = options,
                  !.choice_min = cmin,
                  !.choice_high = highest_index(econ, options)]

\* stats.lightest: net_burden and net_value of the lightest options
lightest_stats(econ, dec, order) ==
    LET f[k \in 0..Len(order)] ==
            IF k = 0 THEN Stats(econ)
            ELSE [f[k-1] EXCEPT
                    !.net_burden = burden_add(econ, @, option_min(dec[order[k]]).burden),
                    !.net_value  = @ + option_min(dec[order[k]]).value]
    IN  f[Len(order)]

\* stats.highest += decision->option_high()
highest_stats(econ, dec, order) ==
    LET f[k \in 0..Len(order)] ==
            IF k = 0 THEN Stats(econ)
            ELSE stats_add(econ, f[k-1], option_high(dec[order[k]]))
    IN  f[Len(order)]

\* sum of the chosen options: stats.chosen += decision->chosen()
chosen_stats(econ, dec, order) ==
    LET f[k \in 0..Len(order)] ==
            IF k = 0 THEN Stats(econ)
            ELSE stats_add(econ, f[k-1], chosen(dec[order[k]]))
    IN  f[Len(order)]

prepare(econ, dec, order, prec) ==
    LET range == max_value_range(econ, dec, order)
        ndec  == [id \in DOMAIN dec |-> prepare_decision(econ, dec[id], prec, range)]
    IN  [decision |-> ndec,
         lightest |-> lightest_stats(econ, ndec, order),
         highest  |-> highest_stats(econ, ndec, order),
         value_to_score_scale |-> <<prec, range>>]

ProblemStats(econ) ==
    [chosen |-> Stats(econ), highest |-> Stats(econ), lightest |-> Stats(econ),
     value_to_score_scale |-> <<0, 1>>]

---------------------------------------------------------------------------
(***************************************************************************)
(* Knapsack_::Minimums and Knapsack_::_compute_minimums.                   *)
(***************************************************************************)
\* first and one-past-last position of a row in the store (0-based row;
\* positions as C++ offsets, store[p] of the source is store[p + 1] here)
row_begin(mins, row) == IF row = 0 THEN 0 ELSE mins.row_end[row]

row_finish(mins, row) == mins.row_end[row + 1]

\* Minimums::operator(): std::lower_bound for the score within the row
minimums_query(econ, mins, row, score) ==
    LET search == [Minimum(econ) EXCEPT !.net_score = score]
        at     == {p \in (row_begin(mins, row) + 1)..row_finish(mins, row) :
                     ~(mins.store[p].net_score < score)}
    IN  IF at # {} THEN mins.store[CHOOSE p \in at : \A q \in at : p <= q]
        ELSE search

\* Minimums::decide walking the row from its low end
minimums_decide_first(econ, mins, capac, row) ==
    LET at == {p \in (row_begin(mins, row) + 1)..row_finish(mins, row) :
                 within_capacity(econ, mins.store[p].net_burden, capac)}
    IN  IF at # {} THEN mins.store[CHOOSE p \in at : \A q \in at : p <= q]
        ELSE Minimum(econ)

\* Minimums::decide: the last entry of the row that is within the capacity
minimums_decide(econ, mins, capac, row) ==
    LET at == {p \in (row_begin(mins, row) + 1)..row_finish(mins, row) :
                 within_capacity(econ, mins.store[p].net_burden, capac)}
    IN  IF at # {} THEN mins.store[CHOOSE p \in at : \A q \in at : q <= p]
        ELSE Minimum(econ)

\* the consider lambda of _compute_minimums; current is the dense vector,
\* kept as a function on the scores it was resized to hold
consider_candidate(econ, capac, current, candidate) ==
    IF ~within_capacity(econ, candidate.net_burden, capac) THEN current
    ELSE LET s   == candidate.net_score
             old == IF s \in DOMAIN current THEN current[s] ELSE Minimum(econ)
         IN  [x \in (DOMAIN current) \cup {s} |->
                 IF x = s THEN consider(econ, old, candidate) ELSE current[x]]

\* "Copy the row into our sparse table": the valid entries in score order
valid_entries(current) ==
    LET S == {s \in DOMAIN current : valid(current[s])}
    IN  [k \in 1..Cardinality(S) |->
            current[CHOOSE s \in S : Cardinality({t \in S : t < s}) = k - 1]]

\* one iteration of the outer loop of _compute_minimums: row i of decision d
compute_row(econ, capac, d, i, previous) ==
    LET n  == Len(d.options)
        nb == Len(previous)
        after[k \in 0..n] ==
            IF k = 0 THEN <<>>
            ELSE LET option == d.options[k]
                 IN  IF option.score < 0 \/ ~possible(econ, option) THEN after[k-1]
                     ELSE IF i = 0
                     THEN consider_candidate(econ, capac, after[k-1],
                              [net_score  |-> option.score,
                               net_burden |-> option.burden,
                               choice     |-> k - 1])
                     ELSE LET h[j \in 0..nb] ==
                                  IF j = 0 THEN after[k-1]
                                  ELSE consider_candidate(econ, capac, h[j-1],
                                           [net_score  |-> previous[j].net_score + option.score,
                                            net_burden |-> burden_add(econ, previous[j].net_burden,
                                                                      option.burden),
                                            choice     |-> k - 1])
                          IN  h[nb]
    IN  valid_entries(after[n])

compute_minimums(econ, capac, dec, order) ==
    LET N == Len(order)
        rows[k \in 1..N] ==
            compute_row(econ, capac, dec[order[k]], k - 1,
                        IF k = 1 THEN <<>> ELSE rows[k-1])
        store[k \in 0..N] == IF k = 0 THEN <<>> ELSE store[k-1] \o rows[k]
    IN  [store |-> store[N], row_end |-> [k \in 1..N |-> Len(store[k])]]

\* std::sort of the decisions by option_high().score: any ascending order
sorted_orders(dec, order) ==
    {o \in [1..Len(order) -> DOMAIN dec] :
        /\ \A id \in DOMAIN dec :
              Cardinality({k \in 1..Len(order) : o[k] = id})
                = Cardinality({k \in 1..Len(order) : order[k] = id})
        /\ \A k \in 1..(Len(order) - 1) :
              option_high(dec[o[k]]).score <= option_high(dec[o[k+1]]).score}

---------------------------------------------------------------------------
(***************************************************************************)
(* The problems decide() is run on: every list of at most MaxDecisions     *)
(* decisions of at most MaxOptions options drawn from the option pool of   *)
(* the economy, under every capacity up to MaxLimit, and the scenarios.    *)
(***************************************************************************)
NormalBurden(m, v) == [mean |-> m, var |-> v]

ScalarOptions ==
    {Option(0, 0), Option(1, 0), Option(1, 2), Option(2, 8), Option(Inf, 8)}

NormalOptions ==
    {Option(NormalBurden(0, 0), 0), Option(NormalBurden(1, 1), 0),
     Option(NormalBurden(2, 0), 2), Option(NormalBurden(2, 1), 8),
     Option(infinite("normal"), 8)}

Precisions == {2}

Sigmas == {1}

SeqsUpTo(S, n) == UNION {[1..k -> S] : k \in 0..n}

OptionLists(pool) == SeqsUpTo(pool, MaxOptions) \ {<<>>}

Problems ==
    [economy : {"scalar"},
     options : SeqsUpTo(OptionLists(ScalarOptions), MaxDecisions),
     capacity : 1..MaxLimit,
     precision : Precisions]
    \cup
    [economy : {"normal"},
     options : SeqsUpTo(OptionLists(NormalOptions), MaxDecisions),
     capacity : [limit : 1..MaxLimit, sigmas : Sigmas],
     precision : Precisions]

\* three binary decisions, capacity 2, precision 50
ThreeBinaryDecisions ==
    [economy |-> "scalar",
     options |-> << <<Option(0, 0), Option(1, 10)>>,
                    <<Option(0, 0), Option(1, 8)>>,
                    <<Option(0, 0), Option(2, 12)>> >>,
     capacity |-> 2, precision |-> 50]

\* one decision with the single option (5, 1), capacity 4
InfeasibleTrivially ==
    [economy |-> "scalar",
     options |-> << <<Option(5, 1)>> >>,
     capacity |-> 4, precision |-> 50]

\* burdens (1, 0) and (2, 0.25) under (limit 2.5, sigmas 2), in half units
TwoNormalOptions ==
    [economy |-> "normal",
     options |-> << <<Option(NormalBurden(2, 0), 0), Option(NormalBurden(4, 1), 1)>> >>,
     capacity |-> [limit |-> 5, sigmas |-> 2], precision |-> 50]

\* two options that share a score next to a decision that sets the scale
SharedScore ==
    [economy |-> "scalar",
     options |-> << <<Option(0, 0), Option(2, 8)>>,
                    <<Option(0, 0), Option(1, 1), Option(1, 2)>> >>,
     capacity |-> 2, precision |-> 4]

\* the same with room for every option
SharedScoreSlack ==
    [economy |-> "scalar",
     options |-> << <<Option(0, 0), Option(2, 8)>>,
                    <<Option(0, 0), Option(1, 1), Option(1, 2)>> >>,
     capacity |-> 4, precision |-> 4]

\* two options of one value of which the one of the lower mean has the
\* higher variance, next to a decision with a valuable option
LighterButWider ==
    [economy |-> "normal",
     options |-> << <<Option(NormalBurden(0, 4), 0), Option(NormalBurden(1, 0), 0)>>,
                    <<Option(NormalBurden(0, 0), 0), Option(NormalBurden(1, 0), 8)>> >>,
     capacity |-> [limit |-> 3, sigmas |-> 1], precision |-> 4]

\* a burden below zero ("typically positive (but not required to be)"): the
\* lightest assignment 5 - 4 is under the capacity 2, its first part 5 is not
NegativeBurden ==
    [economy |-> "scalar",
     options |-> << <<Option(5, 0)>>, <<Option(-4, 0), Option(0, 8)>> >>,
     capacity |-> 2, precision |-> 4]

\* a scale that the float division rounds up: 7 / 13 becomes 9033886 * 2^-24
RoundedScale ==
    [economy |-> "scalar",
     options |-> << <<Option(0, 0), Option(1, 13)>>, <<Option(0, 0), Option(2, 4)>> >>,
     capacity |-> 2, precision |-> 7]

Scenarios ==
    {ThreeBinaryDecisions, InfeasibleTrivially, TwoNormalOptions, SharedScore,
     SharedScoreSlack, LighterButWider, NegativeBurden, RoundedScale}

---------------------------------------------------------------------------
(***************************************************************************)
(* Knapsack_::decide, in the order of its statements.                      *)
(***************************************************************************)
KnapsackInit(p) ==
    /\ economy = p.economy
    /\ decision = [id \in 1..Len(p.options) |-> Decision(p.options[id])]
    /\ decisions = [k \in 1..Len(p.options) |-> k]
    /\ capacity = p.capacity
    /\ precision = p.precision
    /\ stats = ProblemStats(p.economy)
    /\ minimums = [store |-> <<>>, row_end |-> <<>>]
    /\ solution = Minimum(p.economy)
    /\ index = 0
    /\ result = NULL
    /\ pc = "decide"

\* precision = max(precision, 4); _prepare(precision)
Prepare ==
    /\ pc = "decide"
    /\ LET prec == Max(precision, MinPrecision)
           prep == prepare(economy, decision, decisions, prec)
       IN  /\ precision' = prec
           /\ decision' = prep.decision
           /\ stats' = [stats EXCEPT !.lightest = prep.lightest,
                                     !.highest = prep.highest,
                                     !.value_to_score_scale = prep.value_to_score_scale]
    /\ pc' = "shortcuts"
    /\ UNCHANGED <<economy, decisions, capacity, minimums, solution, index, result>>

\* the lightest shortcut without the loop that writes choice_min
ShortcutLightestKeepsChoice ==
    /\ pc = "shortcuts"
    /\ ~within_capacity(economy, stats.lightest.net_burden, capacity)
    /\ stats' = [stats EXCEPT !.chosen = stats.lightest]
    /\ result' = FALSE
    /\ pc' = "done"
    /\ UNCHANGED <<economy, decision, decisions, capacity, precision, minimums,
                   solution, index>>

\* Shortcut: if the lightest solution is overburdened, return it (failure)
ShortcutLightest ==
    /\ pc = "shortcuts"
    /\ ~within_capacity(economy, stats.lightest.net_burden, capacity)
    /\ decision' = [id \in DOMAIN decision |->
                       [decision[id] EXCEPT !.choice = decision[id].choice_min]]
    /\ stats' = [stats EXCEPT !.chosen = stats.lightest]
    /\ result' = FALSE
    /\ pc' = "done"
    /\ UNCHANGED <<economy, decisions, capacity, precision, minimums, solution, index>>

\* Shortcut: if the highest-valued solution is not overburdened, return it
ShortcutHighest ==
    /\ pc = "shortcuts"
    /\ within_capacity(economy, stats.lightest.net_burden, capacity)
    /\ within_capacity(economy, stats.highest.net_burden, capacity)
    /\ decision' = [id \in DOMAIN decision |->
                       [decision[id] EXCEPT !.choice = decision[id].choice_high]]
    /\ stats' = [stats EXCEPT !.chosen = stats.highest]
    /\ result' = TRUE
    /\ pc' = "done"
    /\ UNCHANGED <<economy, decisions, capacity, precision, minimums, solution, index>>

\* Sort all decisions by maximum value
SortDecisions ==
    /\ pc = "shortcuts"
    /\ within_capacity(economy, stats.lightest.net_burden, capacity)
    /\ ~within_capacity(economy, stats.highest.net_burden, capacity)
    /\ decisions' \in sorted_orders(decision, decisions)
    /\ pc' = "minimums"
    /\ UNCHANGED <<economy, decision, capacity, precision, stats, minimums,
                   solution, index, result>>

\* _compute_minimums(capacity)
ComputeMinimums ==
    /\ pc = "minimums"
    /\ minimums' = compute_minimums(economy, capacity, decision, decisions)
    /\ pc' = "select"
    /\ UNCHANGED <<economy, decision, decisions, capacity, precision, stats,
                   solution, index, result>>

\* Minimum solution = minimums.decide(economy, capacity); index_t i = decisions.size()
SelectSolution ==
    /\ pc = "select"
    /\ solution' = minimums_decide(economy, minimums, capacity,
                                   Len(minimums.row_end) - 1)
    /\ index' = Len(decisions)
    /\ pc' = "reconstruct"
    /\ UNCHANGED <<economy, decision, decisions, capacity, precision, stats,
                   minimums, result>>

\* one iteration of the while (true) loop.  A choice that is no index of the
\* decision fails the assert or reads outside the option array, and a
\* nonzero residual score fails the assert of a build that keeps asserts.
Reconstruct ==
    /\ pc = "reconstruct"
    /\ LET i  == index - 1
           id == decisions[i + 1]
       IN  /\ index' = i
           /\ IF solution.choice >= option_count(decision[id])
              THEN /\ pc' = "undefined"
                   /\ UNCHANGED <<decision, solution>>
              ELSE LET next_score == solution.net_score
                                       - decision[id].options[solution.choice + 1].score
                   IN  /\ decision' = [decision EXCEPT ![id].choice = solution.choice]
                       /\ IF i = 0
                          THEN /\ pc' \in (IF next_score = 0 THEN {"sum"}
                                          ELSE {"sum", "undefined"})
                               /\ UNCHANGED solution
                          ELSE /\ pc' = "reconstruct"
                               /\ solution' = minimums_query(economy, minimums,
                                                             i - 1, next_score)
    /\ UNCHANGED <<economy, decisions, capacity, precision, stats, minimums, result>>

\* Calculate final stats and return
Finish ==
    /\ pc = "sum"
    /\ LET sum == chosen_stats(economy, decision, decisions)
       IN  /\ stats' = [stats EXCEPT !.chosen = sum]
           /\ IF within_capacity(economy, sum.net_burden, capacity)
              THEN /\ result' = TRUE
                   /\ pc' = "done"
              ELSE /\ result' \in {NULL, TRUE}
                   /\ pc' = IF result' = NULL THEN "undefined" ELSE "done"
    /\ UNCHANGED <<economy, decision, decisions, capacity, precision, minimums,
                   solution, index>>

---------------------------------------------------------------------------
(***************************************************************************)
(* Registration of settings with goblins (goblin.h): Goblin_::add,         *)
(* Goblin_::remove and the two destructors.  Objects are named; an object  *)
(* that was destroyed can be constructed again.                            *)
(***************************************************************************)
Goblins == {"g1", "g2"}

SettingObjects == {"s1", "s2"}

Call(op, g, s) == [op |-> op, goblin |-> g, setting |-> s,
                   owner |-> IF s = NULL THEN NULL ELSE goblin_of[s],
                   registered |-> IF g = NULL THEN {} ELSE settings[g]]

RegistryInit ==
    /\ settings = [g \in Goblins |-> {}]
    /\ goblin_of = [s \in SettingObjects |-> NULL]
    /\ alive = Goblins \cup SettingObjects
    /\ add_result = NULL
    /\ last_call = [op |-> "none", goblin |-> NULL, setting |-> NULL,
                    owner |-> NULL, registered |-> {}]

\* Goblin_::remove that erases the setting and leaves its back-pointer
removed_keeps_pointer(reg, g, s) ==
    [settings  |-> [reg.settings EXCEPT ![g] = @ \ {s}],
     goblin_of |-> reg.goblin_of]

\* the effect of Goblin_::remove on (settings, _goblin)
removed(reg, g, s) ==
    [settings  |-> [reg.settings EXCEPT ![g] = @ \ {s}],
     goblin_of |-> IF reg.goblin_of[s] = g
                   THEN [reg.goblin_of EXCEPT ![s] = NULL]
                   ELSE reg.goblin_of]

\* Goblin_::add without the test of the setting's owner
AddUnchecked(g, s) ==
    /\ g \in alive /\ s \in alive
    /\ last_call' = Call("add", g, s)
    /\ goblin_of' = [goblin_of EXCEPT ![s] = g]
    /\ settings' = [settings EXCEPT ![g] = @ \cup {s}]
    /\ add_result' = TRUE
    /\ UNCHANGED alive

\* Goblin_::add
Add(g, s) ==
    /\ g \in alive /\ s \in alive
    /\ last_call' = Call("add", g, s)
    /\ IF goblin_of[s] # NULL
       THEN /\ add_result' = (goblin_of[s] = g)
            /\ UNCHANGED <<settings, goblin_of>>
       ELSE /\ goblin_of' = [goblin_of EXCEPT ![s] = g]
            /\ settings' = [settings EXCEPT ![g] = @ \cup {s}]
            /\ add_result' = TRUE
    /\ UNCHANGED alive

\* Goblin_::remove
Remove(g, s) ==
    /\ g \in alive /\ s \in alive
    /\ last_call' = Call("remove", g, s)
    /\ LET r == removed([settings |-> settings, goblin_of |-> goblin_of], g, s)
       IN  /\ settings' = r.settings
           /\ goblin_of' = r.goblin_of
    /\ UNCHANGED <<alive, add_result>>

\* Setting_::~Setting_: if (_goblin) _goblin->remove(this)
DestroySetting(s) ==
    /\ s \in alive
    /\ last_call' = Call("~Setting_", NULL, s)
    /\ IF goblin_of[s] # NULL
       THEN LET r == removed([settings |-> settings, goblin_of |-> goblin_of],
                             goblin_of[s], s)
            IN  /\ settings' = r.settings
                /\ goblin_of' = r.goblin_of
       ELSE UNCHANGED <<settings, goblin_of>>
    /\ alive' = alive \ {s}
    /\ UNCHANGED add_result

\* Goblin_::~Goblin_: while (settings.size()) remove(settings.begin()->first)
DestroyGoblin(g) ==
    /\ g \in alive
    /\ last_call' = Call("~Goblin_", g, NULL)
    /\ settings' = [settings EXCEPT ![g] = {}]
    /\ goblin_of' = [s \in SettingObjects |->
                        IF s \in settings[g] /\ goblin_of[s] = g THEN NULL
                        ELSE goblin_of[s]]
    /\ alive' = alive \ {g}
    /\ UNCHANGED add_result

\* Goblin_::Goblin_ and Setting_::Setting_: a new object, linked to nothing
Construct(x) ==
    /\ x \notin alive
    /\ last_call' = Call("construct", NULL, NULL)
    /\ alive' = alive \cup {x}
    /\ settings' = IF x \in Goblins THEN [settings EXCEPT ![x] = {}] ELSE settings
    /\ goblin_of' = IF x \in SettingObjects THEN [goblin_of EXCEPT ![x] = NULL]
                    ELSE goblin_of
    /\ UNCHANGED add_result

---------------------------------------------------------------------------
(***************************************************************************)
(* Floats of the profile and of the controller: exact rationals            *)
(* <<numerator, denominator>> in lowest terms with a positive denominator, *)
(* <<1, 0>> and <<-1, 0>> for the infinities and <<0, 0>> for NaN.         *)
(***************************************************************************)
Abs(n) == IF n < 0 THEN -n ELSE n

Sign(n) == IF n < 0 THEN -1 ELSE IF n > 0 THEN 1 ELSE 0

RECURSIVE GCD(_, _)
GCD(a, b) == IF b = 0 THEN a ELSE GCD(b, a % b)

Rat(n, d) ==
    IF d = 0 THEN <<Sign(n), 0>>
    ELSE LET g == GCD(Abs(n), Abs(d))
         IN  <<(Sign(d) * n) \div g, Abs(d) \div g>>

R(n) == <<n, 1>>

NaN == <<0, 0>>

PosInf == <<1, 0>>

isnan(a) == a = NaN

isinf(a) == a[2] = 0 /\ a[1] # 0

isfinite(a) == a[2] # 0

rneg(a) == <<-a[1], a[2]>>

radd(a, b) ==
    IF isnan(a) \/ isnan(b) THEN NaN
    ELSE IF isinf(a) THEN (IF isinf(b) /\ b # a THEN NaN ELSE a)
    ELSE IF isinf(b) THEN b
    ELSE Rat(a[1] * b[2] + b[1] * a[2], a[2] * b[2])

rsub(a, b) == radd(a, rneg(b))

rmul(a, b) ==
    IF isnan(a) \/ isnan(b) THEN NaN
    ELSE IF isinf(a) \/ isinf(b) THEN <<Sign(a[1]) * Sign(b[1]), 0>>
    ELSE Rat(a[1] * b[1], a[2] * b[2])

rdiv(a, b) ==
    IF isnan(a) \/ isnan(b) THEN NaN
    ELSE IF isinf(b) THEN (IF isinf(a) THEN NaN ELSE R(0))
    ELSE IF isinf(a) THEN <<a[1] * (IF b[1] < 0 THEN -1 ELSE 1), 0>>
    ELSE Rat(a[1] * b[2], a[2] * b[1])

\* operator< of floats: false when either side is NaN
rlt(a, b) ==
    IF isnan(a) \/ isnan(b) THEN FALSE
    ELSE IF isinf(a) \/ isinf(b)
         THEN (IF isinf(a) /\ isinf(b) THEN a[1] < b[1]
               ELSE IF isinf(a) THEN a[1] < 0 ELSE b[1] > 0)
    ELSE a[1] * b[2] < b[1] * a[2]

\* operator== of floats: false when either side is NaN
req(a, b) == ~isnan(a) /\ ~isnan(b) /\ a = b

\* std::max(a, b) == (a < b) ? b : a
rmax(a, b) == IF rlt(a, b) THEN b ELSE a

(***************************************************************************)
(* Profile_::burden_stat_t (profile.h): the Welford accumulator            *)
(* [k, mk, vk] of count, mean and sum of squared deviations.               *)
(***************************************************************************)
burden_stat_t == [k |-> R(0), mk |-> R(0), vk |-> R(0)]

\* explicit operator bool
has_data(s) == rlt(R(0), s.k)

count(s) == s.k

stat_sum(s) == rmul(s.k, s.mk)

mean(s) == s.mk

variance(s) == rdiv(s.vk, rmax(rsub(s.k, R(1)), R(1)))

burden_norm(s) == [mean |-> mean(s), var |-> variance(s)]

\* push: dv = (_k++ ? dm : 0)
push(s, burden) ==
    LET dm == rsub(burden, s.mk)
        dv == IF s.k # R(0) THEN dm ELSE R(0)
        k  == radd(s.k, R(1))
        mk == radd(s.mk, rdiv(dm, k))
    IN  [k |-> k, mk |-> mk, vk |-> radd(s.vk, rmul(dv, rsub(burden, mk)))]

\* decay: _k = 1 + (_k - 1) * alpha; _vk *= alpha
decay(s, alpha) ==
    [s EXCEPT !.k = radd(R(1), rmul(rsub(s.k, R(1)), alpha)),
              !.vk = rmul(s.vk, alpha)]

scale(s, scale_factor) ==
    [s EXCEPT !.mk = rmul(s.mk, scale_factor),
              !.vk = rmul(s.vk, rmul(scale_factor, scale_factor))]

\* pool: the combination formula, this.pool(o)
pool(s, o) ==
    LET net_count == radd(count(s), count(o))
        net_mean  == rdiv(radd(stat_sum(o), stat_sum(s)), net_count)
        diff      == rsub(mean(o), mean(s))
        net_vk    == radd(radd(o.vk, s.vk),
                          rdiv(rmul(rmul(diff, diff), rmul(count(s), count(o))),
                               net_count))
    IN  [k |-> net_count, mk |-> net_mean, vk |-> net_vk]

\* the accumulator built by pushing the samples of a sequence in order
RECURSIVE pushed(_)
pushed(samples) ==
    IF samples = <<>> THEN burden_stat_t
    ELSE push(pushed(SubSeq(samples, 1, Len(samples) - 1)), R(samples[Len(samples)]))

\* equality of two accumulators, field by field, as floats compare
same_stat(s, o) == req(s.k, o.k) /\ req(s.mk, o.mk) /\ req(s.vk, o.vk)

(***************************************************************************)
(* Two accumulators a and b that are pushed, decayed and pooled.           *)
(***************************************************************************)
MaxSamples == 2

MaxDecays == 2

StatSamples == {0, 1, 3}

Alphas == {Rat(1, 2), Rat(1, 4)}

StatInit ==
    accum = [a |-> burden_stat_t, b |-> burden_stat_t,
             samples |-> [a |-> <<>>, b |-> <<>>],
             decays |-> 0, op |-> "none", before |-> burden_stat_t,
             alpha |-> R(1), pooled |-> burden_stat_t, reversed |-> burden_stat_t]

\* a.push(x) or b.push(x)
StatPush(which, x) ==
    /\ Len(accum.samples[which]) < MaxSamples
    /\ accum.decays = 0
    /\ accum' = [accum EXCEPT ![which] = push(accum[which], R(x)),
                              !.samples[which] = Append(@, x),
                              !.op = "push"]

\* a.decay(alpha)
StatDecay(alpha) ==
    /\ accum.decays < MaxDecays
    /\ accum' = [accum EXCEPT !.a = decay(accum.a, alpha),
                              !.before = accum.a,
                              !.alpha = alpha,
                              !.decays = @ + 1,
                              !.op = "decay"]

\* a.pool(b) and b.pool(a)
StatPool ==
    /\ accum.decays = 0
    /\ accum.op # "pool"
    /\ accum' = [accum EXCEPT !.pooled = pool(accum.a, accum.b),
                              !.reversed = pool(accum.b, accum.a),
                              !.op = "pool"]

(***************************************************************************)
(* Profile_ (profile.h): a map from task ids to tasks.  A task holds       *)
(* data_count, fully_explored, count and one Estimate (full, recent) per   *)
(* option; estimates[i] of the source is estimates[i + 1] here.  A         *)
(* profile is a function whose domain is the set of its task ids.          *)
(***************************************************************************)
Measurement(choice, burden) == [choice |-> choice, burden |-> burden]

\* Measurement::valid
measurement_valid(m) == m.choice # NO_CHOICE

\* the default-constructed Measurement
NoMeasurement == Measurement(NO_CHOICE, PosInf)

Estimate == [full |-> burden_stat_t, recent |-> burden_stat_t]

\* Task::alloc(count)
Task(n_options) ==
    [data_count |-> 0, fully_explored |-> FALSE, count |-> n_options,
     estimates |-> [i \in 1..n_options |-> Estimate]]

Profile_ == [id \in {} |-> Task(1)]

\* Profile_::find: NULL when the id has no task
find(prof, id) == IF id \in DOMAIN prof THEN prof[id] ELSE NULL

\* the test of the pointer that find returns
found(prof, id) == id \in DOMAIN prof

\* Profile_::task_init: the profile with a task for id
task_init(prof, id, n_options) ==
    IF id \in DOMAIN prof THEN prof
    ELSE [x \in DOMAIN prof \cup {id} |->
             IF x = id THEN Task(n_options) ELSE prof[x]]

\* Profile_::collect without the push into the recent accumulator
collect_full_only(prof, id, n_options, m) ==
    IF ~measurement_valid(m) THEN prof
    ELSE LET init == task_init(prof, id, n_options)
         IN  [init EXCEPT ![id].data_count = @ + 1,
                          ![id].estimates[m.choice + 1].full = push(@, m.burden)]

\* Profile_::collect
collect(prof, id, n_options, m) ==
    IF ~measurement_valid(m) THEN prof
    ELSE LET init == task_init(prof, id, n_options)
         IN  [init EXCEPT ![id].data_count = @ + 1,
                          ![id].estimates[m.choice + 1].recent = push(@, m.burden),
                          ![id].estimates[m.choice + 1].full = push(@, m.burden)]

\* Profile_::assimilate
assimilate(prof, id, data, scale_factor) ==
    LET init == task_init(prof, id, data.count)
    IN  [init EXCEPT ![id].estimates =
            [i \in 1..init[id].count |->
                [init[id].estimates[i] EXCEPT
                    !.full = pool(@, scale(data.estimates[i].full, scale_factor))]]]

\* Profile_::decay_recent
decay_recent(prof, alpha) ==
    [id \in DOMAIN prof |->
        [prof[id] EXCEPT !.estimates =
            [i \in 1..prof[id].count |->
                [prof[id].estimates[i] EXCEPT !.recent = decay(@, alpha)]]]]

\* std::sqrt of a float.  The root of n/d is the root of n*d over d; it is
\* exact when n*d is a perfect square and rounded up to the next multiple
\* of 1/d otherwise.
RECURSIVE root_from(_, _)
root_from(r, x) == IF r * r >= x THEN r ELSE root_from(r + 1, x)

rsqrt(a) ==
    IF isnan(a) \/ rlt(a, R(0)) THEN NaN
    ELSE IF isinf(a) THEN a
    ELSE Rat(root_from(0, a[1] * a[2]), a[2])

\* the (task id, option) pairs that past_present_ratio visits
ratio_pairs(prof, pst) ==
    UNION {{<<id, i>> : i \in 1..prof[id].count} :
              id \in DOMAIN prof \cap DOMAIN pst}

\* the two sums of past_present_ratio over a set of pairs
RECURSIVE ratio_sums(_, _, _)
ratio_sums(prof, pst, pairs) ==
    IF pairs = {} THEN [total_ratio |-> R(0), total_weight |-> R(0)]
    ELSE LET p    == CHOOSE q \in pairs : TRUE
             rest == ratio_sums(prof, pst, pairs \ {p})
             cest == prof[p[1]].estimates[p[2]].full
             pest == pst[p[1]].estimates[p[2]].full
             w0   == rmul(count(cest), count(pest))
             w    == rsqrt(rmul(w0, rmul(mean(cest), mean(pest))))
         IN  IF rlt(R(0), w0)
             THEN [total_ratio  |-> radd(rest.total_ratio,
                                         rmul(w, rdiv(mean(cest), mean(pest)))),
                   total_weight |-> radd(rest.total_weight, w)]
             ELSE rest

\* Goblin_::past_present_ratio
past_present_ratio(prof, pst) ==
    LET sums == ratio_sums(prof, pst, ratio_pairs(prof, pst))
    IN  IF rlt(R(0), sums.total_weight)
        THEN rdiv(sums.total_ratio, sums.total_weight)
        ELSE R(-1)

(***************************************************************************)
(* Two profiles that are filled by collect; the first also assimilates     *)
(* tasks of the second, decays, and is compared with the second.           *)
(***************************************************************************)
MaxData == 2

MaxAssimilations == 2

MaxCalls == 3

MaxProfileDecays == 1

TaskIds == {"a", "b"}

\* the ids of the tasks of the past profile
PastTaskIds == {"a"}

\* the option count of the task of an id
TaskOptionCount == 2

ProfileBurdens == {0, 1, 4}

ScaleFactors == {R(1), R(2)}

Measurements ==
    {Measurement(c, R(x)) : c \in 0..(TaskOptionCount - 1), x \in ProfileBurdens}
        \cup {NoMeasurement}

\* the number of samples collected into a profile
data_total(prof) ==
    LET RECURSIVE total(_)
        total(ids) == IF ids = {} THEN 0
                      ELSE LET id == CHOOSE x \in ids : TRUE
                           IN  prof[id].data_count + total(ids \ {id})
    IN  total(DOMAIN prof)

\* what is kept of a call: its arguments, the profile it found, its result,
\* and what is kept of all calls so far
Probe(op, counts) ==
    [op |-> op, id |-> NULL, m |-> NoMeasurement, before |-> Profile_,
     scale |-> R(1), repeat |-> 0, base |-> Profile_, ratio |-> R(0),
     doubled |-> counts.doubled, assimilations |-> counts.assimilations,
     decays |-> counts.decays, calls |-> counts.calls]

ProfileInit ==
    /\ profile = Profile_
    /\ past = Profile_
    /\ probe = Probe("none", [doubled |-> Profile_, assimilations |-> 0, decays |-> 0,
                              calls |-> 0])

\* past.collect(id, option_count, m); doubled is the profile that collects
\* every measurement of past twice
PastCollect(id, m) ==
    /\ data_total(past) < MaxData
    /\ profile = Profile_
    /\ measurement_valid(m)
    /\ past' = collect(past, id, TaskOptionCount, m)
    /\ probe' = [Probe("collect_past", probe) EXCEPT
                    !.doubled = collect(collect(@, id, TaskOptionCount, m),
                                        id, TaskOptionCount, m)]
    /\ UNCHANGED profile

\* profile.collect(id, option_count, m)
ProfileCollect(id, m) ==
    /\ probe.calls < MaxCalls
    /\ profile' = collect(profile, id, TaskOptionCount, m)
    /\ probe' = [Probe("collect", probe) EXCEPT !.id = id, !.m = m,
                                                !.before = profile,
                                                !.calls = @ + 1]
    /\ UNCHANGED past

\* profile.assimilate(id, *past.find(id), scale_factor)
ProfileAssimilate(id, scale_factor) ==
    /\ id \in DOMAIN past
    /\ probe.assimilations < MaxAssimilations
    /\ probe.calls < MaxCalls
    /\ profile' = assimilate(profile, id, past[id], scale_factor)
    /\ LET again == probe.op = "assimilate" /\ probe.id = id
                      /\ probe.scale = scale_factor
       IN  probe' = [Probe("assimilate", probe) EXCEPT
                        !.id = id,
                        !.scale = scale_factor,
                        !.repeat = IF again THEN probe.repeat + 1 ELSE 1,
                        !.base = IF again THEN probe.base ELSE profile,
                        !.assimilations = @ + 1,
                        !.calls = @ + 1]
    /\ UNCHANGED past

\* profile.decay_recent(alpha)
ProfileDecay(alpha) ==
    /\ probe.decays < MaxProfileDecays
    /\ probe.calls < MaxCalls
    /\ profile' = decay_recent(profile, alpha)
    /\ probe' = [Probe("decay_recent", probe) EXCEPT !.decays = @ + 1,
                                                     !.calls = @ + 1]
    /\ UNCHANGED past

\* past_present_ratio() of a controller with these two profiles
ProfileRatio ==
    /\ probe.op # "ratio"
    /\ probe' = [Probe("ratio", probe) EXCEPT
                    !.ratio = past_present_ratio(profile, past)]
    /\ UNCHANGED <<profile, past>>

---------------------------------------------------------------------------
(***************************************************************************)
(* The controller Goblin_ (goblin.h) of the settings registered with "g1": *)
(* harvest, decide and update.  A setting is an implementation of the      *)
(* abstract Setting_: it has an id, options with values, a default choice, *)
(* a queue of measurements of which measurement() removes and returns the  *)
(* first (an invalid Measurement when the queue is empty), and the choice  *)
(* that choice_set stored last.                                            *)
(***************************************************************************)
TheGoblin == "g1"

\* Setting_::id
setting_id(s) == IF s = "s1" THEN "a" ELSE "b"

\* Setting_::options: the values of the options
setting_options(s) == IF s = "s1" THEN <<0, 8>> ELSE <<2>>

\* Setting_::choice_default
choice_default(s) == IF s = "s1" THEN 1 ELSE 0

\* Goblin_::Config
Config(recent_alpha, anomaly_alpha, measure_quota, explore_value) ==
    [recent_alpha |-> recent_alpha, anomaly_alpha |-> anomaly_alpha,
     measure_quota |-> measure_quota, explore_value |-> explore_value]

\* Goblin_::Anomaly
Anomaly == [latest |-> R(1), recent |-> R(1)]

\* the orders in which a loop over the unordered_map can visit the settings
RECURSIVE iteration_orders(_)
iteration_orders(S) ==
    IF S = {} THEN {<<>>}
    ELSE UNION {{<<s>> \o rest : rest \in iteration_orders(S \ {s})} : s \in S}

\* Setting_::measurement of a setting with a queue
measurement(q) == IF q = <<>> THEN NoMeasurement ELSE Head(q)

\* "Burdens must be >= 0": the clamp of harvest
clamped(burden) == IF rlt(burden, R(0)) THEN R(0) ELSE burden

\* harvest without the clamp of the burden
harvest_setting_unclamped(h, s) ==
    LET measure == measurement(h.queue[s])
        entry   == find(h.profile, setting_id(s))
        typical == IF found(h.profile, setting_id(s))
                   THEN mean(entry.estimates[measure.choice + 1].full)
                   ELSE R(0)
    IN  IF ~measurement_valid(measure) THEN h
        ELSE [h EXCEPT
                !.queue[s] = Tail(@),
                !.sum_typical = radd(@, typical),
                !.sum_current = IF found(h.profile, setting_id(s))
                                THEN radd(@, measure.burden) ELSE @,
                !.profile = collect(@, setting_id(s), Len(setting_options(s)), measure),
                !.collected = @ \cup {[setting |-> s, measured |-> measure,
                                         measure |-> measure,
                                         entry |-> found(h.profile, setting_id(s)),
                                         typical |-> typical]}]

\* the body of the loop of harvest for one setting: one call of
\* measurement(), the clamp, the sums of the anomaly and collect.
\* An entry that is missing adds nothing to the sums.
harvest_setting(h, s) ==
    LET got     == measurement(h.queue[s])
        measure == [got EXCEPT !.burden = clamped(@)]
        entry   == find(h.profile, setting_id(s))
        typical == IF found(h.profile, setting_id(s))
                   THEN mean(entry.estimates[measure.choice + 1].full)
                   ELSE R(0)
    IN  IF ~measurement_valid(got) THEN h
        ELSE [h EXCEPT
                !.queue[s] = Tail(@),
                !.sum_typical = radd(@, typical),
                !.sum_current = IF found(h.profile, setting_id(s))
                                THEN radd(@, measure.burden) ELSE @,
                !.profile = collect(@, setting_id(s), Len(setting_options(s)), measure),
                !.collected = @ \cup {[setting |-> s, measured |-> got,
                                         measure |-> measure,
                                         entry |-> found(h.profile, setting_id(s)),
                                         typical |-> typical]}]

\* the loop of harvest over the settings in an order
RECURSIVE harvest_loop(_, _)
harvest_loop(h, order) ==
    IF order = <<>> THEN h
    ELSE CHOOSE r \in {harvest_loop(next, Tail(order)) :
                          next \in {harvest_setting(h, Head(order))}} : TRUE

\* the blend of the anomaly with anomaly_alpha in the place of 1 - anomaly_alpha
estimate_anomaly_by_alpha(anom, conf, sum_current, sum_typical) ==
    IF rlt(R(0), sum_typical)
    THEN LET latest == rdiv(sum_current, sum_typical)
         IN  [latest |-> latest,
              recent |-> radd(anom.recent,
                              rmul(conf.anomaly_alpha, rsub(latest, anom.recent)))]
    ELSE anom

\* "Estimate anomaly": the end of harvest
estimate_anomaly(anom, conf, sum_current, sum_typical) ==
    IF rlt(R(0), sum_typical)
    THEN LET latest == rdiv(sum_current, sum_typical)
         IN  [latest |-> latest,
              recent |-> radd(anom.recent,
                              rmul(rsub(R(1), conf.anomaly_alpha),
                                   rsub(latest, anom.recent)))]
    ELSE anom

\* Goblin_::harvest: the profile, the queues and the anomaly afterwards,
\* with the sums and the set of what was collected
harvest(prof, queues, anom, conf, order) ==
    CHOOSE r \in
        {[h EXCEPT !.anomaly = estimate_anomaly(anom, conf, h.sum_current,
                                                h.sum_typical)] :
            h \in {harvest_loop(start, order) :
                      start \in {[profile |-> decay_recent(prof, conf.recent_alpha),
                                  queue |-> queues,
                                  sum_typical |-> R(0), sum_current |-> R(0),
                                  collected |-> {}, anomaly |-> anom]}}} : TRUE

(***************************************************************************)
(* Goblin_::decide: the estimated burden of every option of a setting.     *)
(* The estimates are normal burdens [mean, var] of rationals.              *)
(***************************************************************************)
\* burden_norm_t::operator*
burden_times(b, s) == [mean |-> rmul(b.mean, s), var |-> rmul(b.var, rmul(s, s))]

\* burden_norm_t::operator+
burden_plus(a, b) == [mean |-> radd(a.mean, b.mean), var |-> radd(a.var, b.var)]

\* economy_norm_t::lesser
burden_lesser(lhs, rhs) == rlt(lhs.mean, rhs.mean)

\* economy_norm_t::infinite
burden_infinite == [mean |-> PosInf, var |-> R(0)]

\* static const burden_stat_t UNKNOWN_BURDEN = {}
UNKNOWN_BURDEN == burden_stat_t

\* the loop that finds the lightest known burden of a setting and counts
\* the missing data, over the options 1..n
RECURSIVE blind_loop(_, _, _, _, _, _, _)
blind_loop(prof, pst_prof, id, ratio, anom, conf, n) ==
    IF n = 0 THEN [lightest |-> burden_infinite, missing_data |-> R(0)]
    ELSE LET before == blind_loop(prof, pst_prof, id, ratio, anom, conf, n - 1)
             curr == IF found(prof, id) THEN prof[id].estimates[n].full
                     ELSE UNKNOWN_BURDEN
             prev == IF found(pst_prof, id) THEN pst_prof[id].estimates[n].full
                     ELSE UNKNOWN_BURDEN
             known == has_data(curr) \/ has_data(prev)
             cnt  == IF has_data(curr) THEN count(curr)
                     ELSE IF has_data(prev) THEN count(prev) ELSE R(0)
             test == IF has_data(curr) THEN burden_times(burden_norm(curr), anom.recent)
                     ELSE burden_times(burden_norm(prev), ratio)
             missing == rmax(R(0), rsub(rsub(conf.measure_quota, count(curr)),
                                        count(prev)))
         IN  [lightest |-> IF known /\ cnt # R(0) /\ burden_lesser(test, before.lightest)
                           THEN test ELSE before.lightest,
              missing_data |-> radd(before.missing_data, missing)]

\* option_store after n calls of push_back: the n elements, each computed
\* when it is pushed
option_store(pushed_options, n) == SubSeq(pushed_options, 1, n)

\* the estimate of one setting: the options for the knapsack (with the
\* local option_burden before the incentive to explore), the decision's
\* choice, the task's fully_explored flag afterwards, whether the blind
\* guess was computed, and the local unexplored_burden_mod.
\* uninitialised is the value that blind_guess holds when it is not computed.
estimate_setting(s, prof, pst_prof, ratio, anom, conf, choice, uninitialised) ==
    LET values == setting_options(s)
        n      == Len(values)
        id     == setting_id(s)
        pres   == find(prof, id)
        pst    == find(pst_prof, id)
        has_pres == found(prof, id)
        has_past == found(pst_prof, id)
    IN  IF has_pres \/ (has_past /\ rlt(R(0), ratio))
        THEN LET compute == ~has_pres \/ ~pres.fully_explored
                 blind   == CHOOSE b \in {blind_loop(prof, pst_prof, id, ratio,
                                                     anom, conf, n)} : TRUE
                 blind_guess == IF compute THEN blind.lightest ELSE uninitialised
                 data_count  == (IF has_pres THEN pres.data_count ELSE 0)
                                  + (IF has_past THEN pst.data_count ELSE 0)
                 unexplored_burden_mod ==
                     IF compute
                     THEN rdiv(blind.missing_data,
                               rmax(blind.missing_data, R(data_count)))
                     ELSE R(1)
                 unexplored(i) ==
                     LET curr == IF has_pres THEN pres.estimates[i].full ELSE UNKNOWN_BURDEN
                         prev == IF has_past THEN pst.estimates[i].full ELSE UNKNOWN_BURDEN
                     IN  rlt(radd(count(prev), count(curr)), conf.measure_quota)
                 option(i) ==
                     LET recent == IF has_pres THEN pres.estimates[i].recent ELSE UNKNOWN_BURDEN
                         curr == IF has_pres THEN pres.estimates[i].full ELSE UNKNOWN_BURDEN
                         prev == IF has_past THEN pst.estimates[i].full ELSE UNKNOWN_BURDEN
                         prior_burden == IF has_data(prev)
                                         THEN burden_times(burden_norm(prev), ratio)
                                         ELSE blind_guess
                         mix == rdiv(count(curr), conf.measure_quota)
                         option_burden ==
                             IF has_data(curr)
                             THEN IF rlt(count(curr), conf.measure_quota)
                                  THEN burden_plus(burden_times(burden_norm(curr), mix),
                                                   burden_times(prior_burden, rsub(R(1), mix)))
                                  ELSE burden_norm(recent)
                             ELSE prior_burden
                     IN  IF unexplored(i)
                         THEN [burden |-> burden_times(option_burden, unexplored_burden_mod),
                               value |-> values[i] + conf.explore_value,
                               bonus |-> TRUE,
                               option_burden |-> option_burden]
                         ELSE [burden |-> option_burden, value |-> values[i],
                               bonus |-> FALSE,
                               option_burden |-> option_burden]
             IN  [options |-> option_store([i \in 1..n |-> option(i)], n),
                  choice |-> choice,
                  data |-> TRUE,
                  computed |-> compute,
                  unexplored_burden_mod |-> unexplored_burden_mod,
                  fully_explored |->
                      IF ~has_pres THEN FALSE
                      ELSE IF \E i \in 1..n : unexplored(i) THEN FALSE
                      ELSE IF compute THEN blind.missing_data = R(0)
                      ELSE pres.fully_explored]
        ELSE LET kept == IF choice >= n THEN 0 ELSE choice
             IN  [options |-> option_store([i \in 1..n |->
                                  [burden |-> IF i - 1 = kept
                                              THEN [mean |-> R(0), var |-> R(0)]
                                              ELSE burden_infinite,
                                   value |-> values[i],
                                   bonus |-> FALSE,
                                   option_burden |-> burden_infinite]], n),
                  choice |-> kept,
                  data |-> FALSE,
                  computed |-> FALSE,
                  unexplored_burden_mod |-> R(1),
                  fully_explored |-> FALSE]

(***************************************************************************)
(* The knapsack of decide.  The solver compares burdens, adds them and     *)
(* tests them against the capacity, and each of these is unchanged when    *)
(* the means and the limit are multiplied by a positive D and the          *)
(* variances by D * D; the estimates are handed to the solver in the       *)
(* units 1/D of the least D that makes every mean and variance whole.      *)
(***************************************************************************)
LCM(a, b) == (a * b) \div GCD(a, b)

RECURSIVE common_denominator(_)
common_denominator(S) ==
    IF S = {} THEN 1
    ELSE LET d == CHOOSE x \in S : TRUE
         IN  LCM(d, common_denominator(S \ {d}))

\* the least d from r on such that q divides d * d
RECURSIVE root_denominator_from(_, _)
root_denominator_from(r, q) ==
    IF (r * r) % q = 0 THEN r ELSE root_denominator_from(r + 1, q)

root_denominator(q) == root_denominator_from(1, q)

\* the denominators that the unit of lists of options has to clear: those of
\* the finite means, and for the finite variances their roots
denominators(lists) ==
    LET burdens == UNION {{lists[k][i].burden : i \in DOMAIN lists[k]} :
                             k \in DOMAIN lists}
    IN  {b.mean[2] : b \in {c \in burdens : isfinite(c.mean)}}
          \cup {root_denominator(b.var[2]) : b \in {c \in burdens : isfinite(c.var)}}

\* a float in the units 1/d
in_units(x, d) ==
    IF isfinite(x) THEN (x[1] * d) \div x[2]
    ELSE IF x = PosInf THEN Inf
    ELSE NULL

\* Option_t{option_burden, value} in the units 1/d
unit_option(o, d) ==
    Option(NormalBurden(in_units(o.burden.mean, d), in_units(o.burden.var, d * d)),
           o.value)

\* the loop of decide over the settings in an order: the options of every
\* setting and the choice its Decision holds
RECURSIVE decide_loop(_, _, _, _, _, _, _, _)
decide_loop(prof, pst_prof, ratio, anom, conf, choices, order, uninitialised) ==
    IF order = <<>> THEN <<>>
    ELSE <<estimate_setting(Head(order), prof, pst_prof, ratio, anom, conf,
                            choices[Head(order)], uninitialised)>>
           \o decide_loop(prof, pst_prof, ratio, anom, conf, choices,
                          Tail(order), uninitialised)

\* the estimates of decide: scalar_t ratio = past_present_ratio(), then the loop
decide_estimates(prof, pst_prof, anom, conf, choices, order, uninitialised) ==
    CHOOSE r \in {decide_loop(prof, pst_prof, ratio, anom, conf, choices, order,
                              uninitialised) :
                     ratio \in {past_present_ratio(prof, pst_prof)}} : TRUE

\* the profile after decide: pres->fully_explored of the settings' tasks
decide_profile(prof, order, estimates) ==
    [id \in DOMAIN prof |->
        IF \E k \in 1..Len(order) : setting_id(order[k]) = id /\ estimates[k].data
        THEN LET k == CHOOSE j \in 1..Len(order) : setting_id(order[j]) = id
             IN  [prof[id] EXCEPT !.fully_explored = estimates[k].fully_explored]
        ELSE prof[id]]

(***************************************************************************)
(* The controller as a machine.  Settings are added to the goblin,         *)
(* measurements arrive at the settings, a past profile is set, and         *)
(* update(capacity, precision) runs harvest and decide; decide runs the    *)
(* solver, statement by statement, on the knapsack it has built and then   *)
(* applies the choices.  No other call happens while update runs.          *)
(***************************************************************************)
MaxTicks == 2

MaxQueue == 2

MaxEnqueued == 3

GoblinBurdens == {R(-1), R(1), R(2)}

GoblinLimits == {2}

GoblinSigmas == {1}

GoblinPrecision == 4

GoblinConfig == Config(Rat(1, 2), Rat(1, 4), R(1), 1)

\* the values an uninitialised burden_norm_t can hold
Uninitialised == {burden_infinite, [mean |-> R(0), var |-> R(0)]}

MaxPastProfiles == 2

\* the configuration with a quota of two measurements
QuotaConfig == Config(Rat(1, 2), Rat(1, 4), R(2), 1)

\* the profiles that set_past_profile installs: the empty profile, and the
\* profile of a run that measured option 0 of each of the two tasks once
PastRuns ==
    {Profile_,
     collect(collect(Profile_, "a", 2, Measurement(0, R(1))),
             "b", 1, Measurement(0, R(2)))}

\* update with decide before harvest
update_decide_first == <<"decide", "harvest">>

\* Goblin_::update: harvest(); decide(capacity, precision)
update == <<"harvest", "decide">>

Update(event, counts) ==
    [event |-> event, ticks |-> counts.ticks, enqueued |-> counts.enqueued,
     past_profiles |-> counts.past_profiles,
     choice_before |-> counts.choice_before,
     capacity |-> counts.capacity, harvested |-> FALSE, estimated |-> FALSE,
     pending |-> counts.pending, profile_before |-> counts.profile_before,
     anomaly_before |-> counts.anomaly_before, collected |-> {},
     sum_typical |-> R(0), sum_current |-> R(0), seen |-> Profile_,
     estimates |-> <<>>, order |-> <<>>]

GoblinStart ==
    /\ anomaly = Anomaly
    /\ queue = [s \in SettingObjects |-> <<>>]
    /\ choice_current = [s \in SettingObjects |-> choice_default(s)]
    /\ decision_choice = [s \in SettingObjects |-> 0]
    /\ todo = <<>>
    /\ upd = Update("none", [ticks |-> 0, enqueued |-> 0, past_profiles |-> 0,
                             choice_before |-> decision_choice,
                             capacity |-> [limit |-> 0, sigmas |-> 0],
                             pending |-> queue, profile_before |-> Profile_,
                             anomaly_before |-> Anomaly])

\* the goblin after construction and the assignment of its configuration
GoblinInit == GoblinStart /\ config = GoblinConfig

\* the knapsack of a goblin that has not decided yet
GoblinKnapsackInit ==
    /\ economy = "normal"
    /\ decision = <<>>
    /\ decisions = <<>>
    /\ capacity = [limit |-> 0, sigmas |-> 0]
    /\ precision = GoblinPrecision
    /\ stats = ProblemStats("normal")
    /\ minimums = [store |-> <<>>, row_end |-> <<>>]
    /\ solution = Minimum("normal")
    /\ index = 0
    /\ result = NULL
    /\ pc = "idle"

\* Goblin_::add before the first update: settings.emplace(setting, Decision_t())
GoblinAdd(s) ==
    /\ todo = <<>>
    /\ upd.ticks = 0
    /\ s \notin settings[TheGoblin]
    /\ Add(TheGoblin, s)
    /\ decision_choice' = [decision_choice EXCEPT ![s] = 0]
    /\ upd' = [upd EXCEPT !.event = "add"]
    /\ UNCHANGED <<anomaly, queue, choice_current, todo, config, profile, past, probe>>

\* a measurement arrives at a registered setting
Enqueue(s, m) ==
    /\ todo = <<>>
    /\ s \in settings[TheGoblin]
    /\ m.choice < Len(setting_options(s))
    /\ Len(queue[s]) < MaxQueue
    /\ upd.enqueued < MaxEnqueued
    /\ queue' = [queue EXCEPT ![s] = Append(@, m)]
    /\ upd' = [upd EXCEPT !.event = "enqueue", !.enqueued = @ + 1]
    /\ UNCHANGED <<anomaly, choice_current, decision_choice, todo, config, profile,
                   past, probe>>

\* Goblin_::set_past_profile
SetPastProfile(p) ==
    /\ todo = <<>>
    /\ p # past
    /\ upd.past_profiles < MaxPastProfiles
    /\ past' = p
    /\ upd' = [upd EXCEPT !.event = "set_past_profile", !.past_profiles = @ + 1]
    /\ UNCHANGED <<anomaly, queue, choice_current, decision_choice, todo, config,
                   profile, probe>>

\* the call of update(capacity, precision)
UpdateCall(capac) ==
    /\ todo = <<>>
    /\ upd.ticks < MaxTicks
    /\ settings[TheGoblin] # {}
    /\ todo' = update
    /\ upd' = Update("update", [ticks |-> upd.ticks + 1, enqueued |-> upd.enqueued,
                                past_profiles |-> upd.past_profiles,
                                choice_before |-> decision_choice,
                                capacity |-> capac, pending |-> queue,
                                profile_before |-> profile,
                                anomaly_before |-> anomaly])
    /\ UNCHANGED <<anomaly, queue, choice_current, decision_choice, config, profile,
                   past, probe>>

\* harvest()
UpdateHarvest ==
    /\ todo # <<>> /\ Head(todo) = "harvest"
    /\ \E order \in iteration_orders(settings[TheGoblin]) :
           \E h \in {harvest(profile, queue, anomaly, config, order)} :
               /\ profile' = h.profile
               /\ queue' = h.queue
               /\ anomaly' = h.anomaly
               /\ upd' = [upd EXCEPT !.harvested = TRUE,
                                     !.collected = h.collected,
                                     !.sum_typical = h.sum_typical,
                                     !.sum_current = h.sum_current]
    /\ todo' = Tail(todo)
    /\ UNCHANGED <<choice_current, decision_choice, config, past, probe>>

\* decide(capacity, precision) up to the call of _knapsack.decide
UpdateDecide ==
    /\ todo # <<>> /\ Head(todo) = "decide"
    /\ \E order \in iteration_orders(settings[TheGoblin]), u \in Uninitialised :
           \E est \in {decide_estimates(profile, past, anomaly, config,
                                        decision_choice, order, u)} :
           \E d \in {common_denominator(denominators([k \in DOMAIN est |->
                                                          est[k].options]))} :
               /\ profile' = decide_profile(profile, order, est)
               /\ decision' = [k \in DOMAIN est |->
                                  [Decision([i \in DOMAIN est[k].options |->
                                                unit_option(est[k].options[i], d)])
                                   EXCEPT !.choice = est[k].choice]]
               /\ decisions' = [k \in DOMAIN est |-> k]
               /\ capacity' = [limit |-> upd.capacity.limit * d,
                               sigmas |-> upd.capacity.sigmas]
               /\ upd' = [upd EXCEPT !.estimated = TRUE, !.seen = profile,
                                     !.estimates = est, !.order = order]
    /\ economy' = "normal"
    /\ precision' = GoblinPrecision
    /\ stats' = ProblemStats("normal")
    /\ minimums' = [store |-> <<>>, row_end |-> <<>>]
    /\ solution' = Minimum("normal")
    /\ index' = 0
    /\ result' = NULL
    /\ pc' = "decide"
    /\ todo' = <<"apply">> \o Tail(todo)
    /\ UNCHANGED <<anomaly, queue, choice_current, decision_choice, config, past,
                   probe>>

\* "Then apply all choices": choice_set(decision.choice, 0) of every setting
UpdateApply ==
    /\ todo # <<>> /\ Head(todo) = "apply"
    /\ pc = "done"
    /\ decision_choice' =
           [s \in SettingObjects |->
               IF \E k \in DOMAIN upd.order : upd.order[k] = s
               THEN decision[CHOOSE k \in DOMAIN upd.order : upd.order[k] = s].choice
               ELSE decision_choice[s]]
    /\ choice_current' =
           [s \in SettingObjects |->
               IF \E k \in DOMAIN upd.order : upd.order[k] = s
               THEN decision_choice'[s]
               ELSE choice_current[s]]
    /\ pc' = "idle"
    /\ todo' = Tail(todo)
    /\ upd' = [upd EXCEPT !.event = "applied"]
    /\ UNCHANGED <<economy, decision, decisions, capacity, precision, stats,
                   minimums, solution, index, result>>
    /\ UNCHANGED <<anomaly, queue, config, profile, past, probe>>

---------------------------------------------------------------------------
(***************************************************************************)
(* Specifications.                                                         *)
(***************************************************************************)
Init ==
    /\ \E p \in Problems \cup Scenarios : KnapsackInit(p)
    /\ RegistryInit
    /\ StatInit
    /\ ProfileInit
    /\ GoblinInit

Next ==
    \/ Prepare /\ UNCHANGED <<registry_vars, stat_vars, profile_vars, goblin_vars>>
    \/ ShortcutLightest /\ UNCHANGED <<registry_vars, stat_vars, profile_vars, goblin_vars>>
    \/ ShortcutHighest /\ UNCHANGED <<registry_vars, stat_vars, profile_vars, goblin_vars>>
    \/ SortDecisions /\ UNCHANGED <<registry_vars, stat_vars, profile_vars, goblin_vars>>
    \/ ComputeMinimums /\ UNCHANGED <<registry_vars, stat_vars, profile_vars, goblin_vars>>
    \/ SelectSolution /\ UNCHANGED <<registry_vars, stat_vars, profile_vars, goblin_vars>>
    \/ Reconstruct /\ UNCHANGED <<registry_vars, stat_vars, profile_vars, goblin_vars>>
    \/ Finish /\ UNCHANGED <<registry_vars, stat_vars, profile_vars, goblin_vars>>

Spec == Init /\ [][Next]_vars

\* the scalar economy alone: knapsack.h as it is written
InitScalar ==
    /\ \E p \in {q \in Problems \cup Scenarios : q.economy = "scalar"} : KnapsackInit(p)
    /\ RegistryInit
    /\ StatInit
    /\ ProfileInit
    /\ GoblinInit

SpecScalar == InitScalar /\ [][Next]_vars

InitRegistry ==
    /\ KnapsackInit(InfeasibleTrivially)
    /\ RegistryInit
    /\ StatInit
    /\ ProfileInit
    /\ GoblinInit

NextRegistry ==
    \/ \E g \in Goblins, s \in SettingObjects : Add(g, s) /\ UNCHANGED <<knapsack_vars, stat_vars, profile_vars, goblin_vars>>
    \/ \E g \in Goblins, s \in SettingObjects : Remove(g, s) /\ UNCHANGED <<knapsack_vars, stat_vars, profile_vars, goblin_vars>>
    \/ \E s \in SettingObjects : DestroySetting(s) /\ UNCHANGED <<knapsack_vars, stat_vars, profile_vars, goblin_vars>>
    \/ \E g \in Goblins : DestroyGoblin(g) /\ UNCHANGED <<knapsack_vars, stat_vars, profile_vars, goblin_vars>>
    \/ \E x \in Goblins \cup SettingObjects : Construct(x) /\ UNCHANGED <<knapsack_vars, stat_vars, profile_vars, goblin_vars>>

SpecRegistry == InitRegistry /\ [][NextRegistry]_vars

\* the accumulators alone
InitStat ==
    /\ KnapsackInit(InfeasibleTrivially)
    /\ RegistryInit
    /\ StatInit
    /\ ProfileInit
    /\ GoblinInit

NextStat ==
    \/ \E which \in {"a", "b"}, x \in StatSamples :
           StatPush(which, x) /\ UNCHANGED <<knapsack_vars, registry_vars, profile_vars, goblin_vars>>
    \/ \E alpha \in Alphas : StatDecay(alpha) /\ UNCHANGED <<knapsack_vars, registry_vars, profile_vars, goblin_vars>>
    \/ StatPool /\ UNCHANGED <<knapsack_vars, registry_vars, profile_vars, goblin_vars>>

SpecStat == InitStat /\ [][NextStat]_vars

\* the profiles alone
InitProfile ==
    /\ KnapsackInit(InfeasibleTrivially)
    /\ RegistryInit
    /\ StatInit
    /\ ProfileInit
    /\ GoblinInit

NextProfile ==
    \/ \E id \in TaskIds, m \in Measurements :
           ProfileCollect(id, m) /\ UNCHANGED <<knapsack_vars, registry_vars, stat_vars, goblin_vars>>
    \/ \E id \in PastTaskIds, m \in Measurements :
           PastCollect(id, m) /\ UNCHANGED <<knapsack_vars, registry_vars, stat_vars, goblin_vars>>
    \/ \E id \in PastTaskIds, f \in ScaleFactors :
           ProfileAssimilate(id, f) /\ UNCHANGED <<knapsack_vars, registry_vars, stat_vars, goblin_vars>>
    \/ \E alpha \in Alphas :
           ProfileDecay(alpha) /\ UNCHANGED <<knapsack_vars, registry_vars, stat_vars, goblin_vars>>
    \/ ProfileRatio /\ UNCHANGED <<knapsack_vars, registry_vars, stat_vars, goblin_vars>>

SpecProfile == InitProfile /\ [][NextProfile]_vars

\* the controller
InitGoblin ==
    /\ GoblinKnapsackInit
    /\ RegistryInit
    /\ StatInit
    /\ ProfileInit
    /\ GoblinInit

NextGoblin ==
    \/ \E s \in SettingObjects : GoblinAdd(s) /\ UNCHANGED <<knapsack_vars, stat_vars>>
    \/ \E s \in SettingObjects, c \in 0..1, b \in GoblinBurdens :
           Enqueue(s, Measurement(c, b)) /\ UNCHANGED <<knapsack_vars, registry_vars, stat_vars>>
    \/ \E p \in PastRuns : SetPastProfile(p) /\ UNCHANGED <<knapsack_vars, registry_vars, stat_vars>>
    \/ \E l \in GoblinLimits, e \in GoblinSigmas :
           UpdateCall([limit |-> l, sigmas |-> e]) /\ UNCHANGED <<knapsack_vars, registry_vars, stat_vars>>
    \/ UpdateHarvest /\ UNCHANGED <<knapsack_vars, registry_vars, stat_vars>>
    \/ UpdateDecide /\ UNCHANGED <<registry_vars, stat_vars>>
    \/ Prepare /\ UNCHANGED <<registry_vars, stat_vars, profile_vars, goblin_vars>>
    \/ ShortcutLightest /\ UNCHANGED <<registry_vars, stat_vars, profile_vars, goblin_vars>>
    \/ ShortcutHighest /\ UNCHANGED <<registry_vars, stat_vars, profile_vars, goblin_vars>>
    \/ SortDecisions /\ UNCHANGED <<registry_vars, stat_vars, profile_vars, goblin_vars>>
    \/ ComputeMinimums /\ UNCHANGED <<registry_vars, stat_vars, profile_vars, goblin_vars>>
    \/ SelectSolution /\ UNCHANGED <<registry_vars, stat_vars, profile_vars, goblin_vars>>
    \/ Reconstruct /\ UNCHANGED <<registry_vars, stat_vars, profile_vars, goblin_vars>>
    \/ Finish /\ UNCHANGED <<registry_vars, stat_vars, profile_vars, goblin_vars>>
    \/ UpdateApply /\ UNCHANGED <<registry_vars, stat_vars>>

SpecGoblin == InitGoblin /\ [][NextGoblin]_vars

\* the controller with a quota of two measurements
InitQuota ==
    /\ GoblinKnapsackInit
    /\ RegistryInit
    /\ StatInit
    /\ ProfileInit
    /\ GoblinStart
    /\ config = QuotaConfig

SpecQuota == InitQuota /\ [][NextGoblin]_vars

---------------------------------------------------------------------------
(***************************************************************************)
(* Reference definitions for the properties: every assignment of one       *)
(* option per decision, by brute force.                                    *)
(***************************************************************************)
Returned == pc = "done"

Assignments ==
    {f \in [DOMAIN decision ->
                0..(SetMax({option_count(decision[id]) : id \in DOMAIN decision}
                           \cup {1}) - 1)] :
        \A id \in DOMAIN decision : f[id] < option_count(decision[id])}

AssignmentStats(f) ==
    chosen_stats(economy,
                 [id \in DOMAIN decision |-> [decision[id] EXCEPT !.choice = f[id]]],
                 decisions)

\* acceptability of a net burden, written out for both economies
WithinCapacity(b) ==
    IF economy = "scalar" THEN b < capacity
    ELSE /\ b.mean < capacity.limit
         /\ capacity.sigmas * capacity.sigmas * b.var
              < (capacity.limit - b.mean) * (capacity.limit - b.mean)

Feasible == {f \in Assignments : WithinCapacity(AssignmentStats(f).net_burden)}

OptimalValue == SetMax({AssignmentStats(f).net_value : f \in Feasible})

Choices == [id \in DOMAIN decision |-> decision[id].choice]

ChosenOption(id) == decision[id].options[decision[id].choice + 1]

Finite(b) == IF economy = "scalar" THEN b < Inf ELSE b.mean < Inf /\ b.var < Inf

Lighter(a, b) == IF economy = "scalar" THEN a < b ELSE a.mean < b.mean

\* the first option of a decision that no other option is lighter than
MinBurdenIndex(id) ==
    LET opts == decision[id].options
        mins == {k \in 1..Len(opts) :
                   \A j \in 1..Len(opts) : ~Lighter(opts[j].burden, opts[k].burden)}
    IN  (CHOOSE k \in mins : \A j \in mins : k <= j) - 1

MinBurdenAssignment == [id \in DOMAIN decision |-> MinBurdenIndex(id)]

ReturnedByReconstruction == Returned /\ minimums.row_end # <<>>

---------------------------------------------------------------------------
(***************************************************************************)
(* Properties of Knapsack_::decide.                                        *)
(***************************************************************************)

\* C1: whenever decide() returns true, stats.chosen.net_burden is the sum of
\* the burdens of the chosen options and is acceptable under the capacity:
\* strictly below it in the scalar economy, and mean < limit with
\* sigmas^2 * variance < (limit - mean)^2 in the normal economy.  A net
\* burden equal to the capacity is never returned with true.
C1_AcceptableWhenTrue ==
    (Returned /\ result = TRUE) =>
        /\ stats.chosen.net_burden = AssignmentStats(Choices).net_burden
        /\ WithinCapacity(stats.chosen.net_burden)
        /\ economy = "scalar" => stats.chosen.net_burden # capacity

\* a normal problem solved by the reconstruction with a chosen variance
C1_Witness ==
    /\ ReturnedByReconstruction /\ result = TRUE
    /\ economy = "normal"
    /\ stats.chosen.net_burden.var > 0

\* C2: when some assignment is acceptable, the chosen net value is at least
\* (1 - 1/precision) times the best acceptable net value (brute force).
C2_ApproximationBound ==
    (Returned /\ Feasible # {}) =>
        stats.chosen.net_value * precision >= (precision - 1) * OptimalValue

\* C3: decide() returns true iff some assignment is acceptable, and when it
\* returns false every decision has its minimum-burden option selected.
C3_TrueIffFeasible ==
    Returned =>
        /\ (result = TRUE) <=> (Feasible # {})
        /\ (result = FALSE) => (Choices = MinBurdenAssignment)

\* C4: if stats.highest.net_burden is acceptable, decide() returns true,
\* every chosen option has the maximum value among the possible options of
\* its decision, and stats.chosen = stats.highest.
C4_HighestUnderSlack ==
    (Returned /\ WithinCapacity(stats.highest.net_burden)) =>
        /\ result = TRUE
        /\ \A id \in DOMAIN decision :
              \A k \in 1..option_count(decision[id]) :
                 Finite(decision[id].options[k].burden)
                    => decision[id].options[k].value <= ChosenOption(id).value
        /\ stats.chosen = stats.highest

\* C5: if the sum of the minimum burdens (stats.lightest.net_burden) is not
\* acceptable under the capacity, decide() returns false, every choice is
\* choice_min, the minimum-burden option, and stats.chosen.net_burden is
\* that minimum sum; the single option (5, 1) under capacity 4 gives 5.
C5_LightestFallback ==
    /\ (Returned /\ ~WithinCapacity(AssignmentStats(MinBurdenAssignment).net_burden)) =>
          /\ result = FALSE
          /\ \A id \in DOMAIN decision :
                /\ decision[id].choice = decision[id].choice_min
                /\ decision[id].choice = MinBurdenIndex(id)
          /\ stats.lightest.net_burden = AssignmentStats(MinBurdenAssignment).net_burden
          /\ stats.chosen.net_burden = AssignmentStats(MinBurdenAssignment).net_burden
    /\ (Returned /\ economy = "scalar" /\ capacity = 4 /\ Len(decisions) = 1
          /\ Len(decision[1].options) = 1
          /\ decision[1].options[1].burden = 5 /\ decision[1].options[1].value = 1) =>
          (result = FALSE /\ stats.chosen.net_burden = 5)

\* the single option (5, 1) under capacity 4 was decided
C5_Witness ==
    /\ Returned /\ economy = "scalar" /\ capacity = 4 /\ Len(decisions) = 1
    /\ Len(decision[1].options) = 1
    /\ decision[1].options[1].burden = 5 /\ decision[1].options[1].value = 1
    /\ result = FALSE

IsThreeBinaryDecisions ==
    /\ economy = "scalar" /\ capacity = 2 /\ precision = 50
    /\ DOMAIN decision = 1..3
    /\ \A id \in 1..3 :
          /\ Len(decision[id].options) = 2
          /\ decision[id].options[1].burden = 0 /\ decision[id].options[1].value = 0
    /\ decision[1].options[2].burden = 1 /\ decision[1].options[2].value = 10
    /\ decision[2].options[2].burden = 1 /\ decision[2].options[2].value = 8
    /\ decision[3].options[2].burden = 2 /\ decision[3].options[2].value = 12

\* C7 as stated: the three binary decisions under capacity 2 and precision
\* 50 end with the choices 1, 1, 0, net burden 2 and net value 18.
C7_ThreeBinaryAsStated ==
    (Returned /\ IsThreeBinaryDecisions) =>
        /\ Choices = <<1, 1, 0>>
        /\ stats.chosen.net_burden = 2
        /\ stats.chosen.net_value = 18

\* C7: the three binary decisions under capacity 2 and precision 50 end with
\* the choices 1, 0, 0, net burden 1 and net value 10, decide() returning
\* true: the net burden 2 of the choices 1, 1, 0 is not below the capacity.
C7_ThreeBinaryDecisions ==
    (Returned /\ IsThreeBinaryDecisions) =>
        /\ result = TRUE
        /\ Choices = <<1, 0, 0>>
        /\ stats.chosen.net_burden = 1
        /\ stats.chosen.net_value = 10

\* the three binary decisions were decided by the reconstruction
C7_Witness == ReturnedByReconstruction /\ IsThreeBinaryDecisions

AllZeroValues ==
    \A id \in DOMAIN decision :
        \A k \in 1..option_count(decision[id]) : decision[id].options[k].value = 0

\* the first possible option of a decision (0 when there is none)
FirstPossibleIndex(id) ==
    LET opts == decision[id].options
        poss == {k \in 1..Len(opts) : Finite(opts[k].burden)}
    IN  IF poss = {} THEN 0 ELSE (CHOOSE k \in poss : \A j \in poss : k <= j) - 1

---------------------------------------------------------------------------
(***************************************************************************)
(* Properties of the registration.                                         *)
(***************************************************************************)
AddStep(g, s) ==
    /\ last_call'.op = "add" /\ last_call'.goblin = g /\ last_call'.setting = s
    /\ last_call' # last_call

\* C9: add(s) on the goblin that owns s returns true and changes nothing;
\* add(s) on another goblin while s is owned returns false and leaves the
\* owner and every registered set unchanged; a setting is in the registered
\* set of at most one goblin.
C9_SingleOwner ==
    /\ [][\A g \in Goblins, s \in SettingObjects :
             (AddStep(g, s) /\ goblin_of[s] # NULL) =>
                 /\ add_result' = (goblin_of[s] = g)
                 /\ settings' = settings
                 /\ goblin_of' = goblin_of]_vars
    /\ [](\A s \in SettingObjects :
             Cardinality({g \in Goblins : s \in settings[g]}) <= 1)

\* an add on a goblin that does not own the setting was rejected
C9_Witness ==
    /\ last_call.op = "add"
    /\ last_call.owner \notin {NULL, last_call.goblin}
    /\ add_result = FALSE
    /\ last_call.setting \in settings[last_call.owner]

\* C10: a live setting's back-pointer names goblin g iff the setting is in
\* g's registered set; after remove(s) by the owner and after the teardown
\* of g the back-pointer is null; no registered set holds a destroyed setting.
C10_BackPointer ==
    /\ \A s \in SettingObjects \cap alive, g \in Goblins :
          (goblin_of[s] = g) <=> (s \in settings[g])
    /\ \A s \in SettingObjects \ alive, g \in Goblins : s \notin settings[g]
    /\ (last_call.op = "remove" /\ last_call.owner = last_call.goblin) =>
          goblin_of[last_call.setting] = NULL
    /\ (last_call.op = "~Goblin_") =>
          \A s \in last_call.registered \cap alive : goblin_of[s] = NULL

\* a goblin that had registered settings was torn down
C10_Witness ==
    /\ last_call.op = "~Goblin_"
    /\ last_call.registered # {}
    /\ last_call.goblin \notin alive


---------------------------------------------------------------------------
(***************************************************************************)
(* The controller: harvest, decide and update (C11 to C15).                *)
(***************************************************************************)
\* harvest has returned and the update that called it has not
HarvestReturned == upd.event = "update" /\ upd.harvested

\* what the harvest of this update collected from a setting
collected_of(s) == {c \in upd.collected : c.setting = s}

\* C11: when harvest returns, the queue of every registered setting is empty
\* and every measurement that was pending when the update was called has
\* been collected.
C11_HarvestDrains ==
    HarvestReturned =>
        \A s \in settings[TheGoblin] :
            /\ queue[s] = <<>>
            /\ Cardinality(collected_of(s)) = Len(upd.pending[s])

\* what harvest does: it takes the first pending measurement of every
\* registered setting and leaves the others in the queue
HarvestTakesOne ==
    HarvestReturned =>
        \A s \in settings[TheGoblin] :
            IF upd.pending[s] = <<>>
            THEN queue[s] = <<>> /\ collected_of(s) = {}
            ELSE /\ queue[s] = Tail(upd.pending[s])
                 /\ \A c \in collected_of(s) : c.measured = Head(upd.pending[s])
                 /\ Cardinality(collected_of(s)) = 1

\* a float that is a number and not below zero
nonnegative(x) == ~isnan(x) /\ ~rlt(x, R(0))

\* C14: every sample that harvest pushes into the profile is >= 0, and the
\* mean of every full and of every recent accumulator of the profile is >= 0.
C14_BurdensNonNegative ==
    /\ \A c \in upd.collected : nonnegative(c.measure.burden)
    /\ \A id \in DOMAIN profile : \A i \in 1..profile[id].count :
           /\ nonnegative(mean(profile[id].estimates[i].full))
           /\ nonnegative(mean(profile[id].estimates[i].recent))

\* a measurement with a negative burden was harvested and is in the profile
C14_Witness ==
    /\ HarvestReturned
    /\ \E c \in upd.collected :
           /\ rlt(c.measured.burden, R(0))
           /\ has_data(profile[setting_id(c.setting)].estimates[c.measure.choice + 1].full)

\* the sum of the prior full means of what was collected
RECURSIVE sum_of_typical(_)
sum_of_typical(C) ==
    IF C = {} THEN R(0)
    ELSE LET c == CHOOSE x \in C : TRUE
         IN  radd(c.typical, sum_of_typical(C \ {c}))

\* every burden harvested in this update is twice the full mean that its
\* (id, option) had before, and those means sum to more than zero
UniformInflation ==
    /\ HarvestReturned
    /\ \A c \in upd.collected : req(c.measure.burden, rmul(R(2), c.typical))
    /\ rlt(R(0), sum_of_typical(upd.collected))

\* C15: after a harvest of burdens that are all twice their prior full mean,
\* anomaly.latest is 2 and anomaly.recent has moved from its value before the
\* harvest toward 2 by (1 - anomaly_alpha) of the distance.
C15_UniformInflation ==
    UniformInflation =>
        /\ req(anomaly.latest, R(2))
        /\ req(anomaly.recent,
               radd(upd.anomaly_before.recent,
                    rmul(rsub(R(1), GoblinConfig.anomaly_alpha),
                         rsub(R(2), upd.anomaly_before.recent))))

\* burdens twice their prior means were harvested and moved the anomaly
C15_Witness ==
    /\ UniformInflation
    /\ req(anomaly.latest, R(2))
    /\ ~req(anomaly.recent, upd.anomaly_before.recent)

\* the accumulator of an option of a task when update was called
stat_before(id, i) ==
    IF found(upd.profile_before, id) THEN upd.profile_before[id].estimates[i]
    ELSE Estimate

\* C13: when decide computes its estimates, every measurement that the
\* harvest of the same update collected is in the profile it reads: the
\* full count and the recent count of the measured option and the
\* data_count of the task are one more than harvest found them.
C13_HarvestBeforeDecide ==
    (upd.harvested /\ upd.estimated) =>
        \A c \in upd.collected :
            LET id == setting_id(c.setting)
                i  == c.measure.choice + 1
            IN  /\ found(upd.seen, id)
                /\ req(count(upd.seen[id].estimates[i].full),
                       radd(count(stat_before(id, i).full), R(1)))
                /\ req(count(upd.seen[id].estimates[i].recent),
                       radd(IF found(upd.profile_before, id)
                            THEN count(decay(stat_before(id, i).recent,
                                             GoblinConfig.recent_alpha))
                            ELSE R(0),
                            R(1)))
                /\ upd.seen[id].data_count =
                       1 + (IF found(upd.profile_before, id)
                            THEN upd.profile_before[id].data_count ELSE 0)

\* an update harvested a measurement and computed its estimates
C13_Witness ==
    /\ upd.harvested /\ upd.estimated
    /\ upd.collected # {}

\* the setting had no task in the profile that decide read and no past data
\* that applies: decide took the branch of the forced choice
NoData(s) ==
    /\ ~found(upd.seen, setting_id(s))
    /\ ~(/\ found(past, setting_id(s))
         /\ rlt(R(0), past_present_ratio(upd.seen, past)))

\* C12: an update applies choice_default() to every registered setting that
\* has neither a task in the profile nor past data that applies.
C12_DefaultChoiceApplied ==
    upd.event = "applied" =>
        \A s \in settings[TheGoblin] :
            NoData(s) => choice_current[s] = choice_default(s)

\* what decide does for such a setting: it applies the choice that the
\* setting's Decision held when update was called
NoDataKeepsDecisionChoice ==
    upd.event = "applied" =>
        \A k \in DOMAIN upd.order :
            NoData(upd.order[k]) =>
                /\ ~upd.estimates[k].data
                /\ choice_current[upd.order[k]] = upd.estimates[k].choice
                /\ upd.estimates[k].choice = upd.choice_before[upd.order[k]]

\* a setting without data received a choice that differs from the choice
\* applied before
NoDataChoiceDiffers ==
    /\ upd.event = "applied"
    /\ \E s \in settings[TheGoblin] :
           NoData(s) /\ upd.choice_before[s] # 0

---------------------------------------------------------------------------
(***************************************************************************)
(* burden_stat_t: pool and decay (C16, C17).                               *)
(***************************************************************************)
\* C16: pooling the accumulator of the samples A with the accumulator of the
\* samples B gives the count, the mean and the sum of squared deviations of
\* the accumulator of A followed by B, and pool is symmetric.
C16_PoolIsConcatenation ==
    accum.op = "pool" =>
        /\ same_stat(accum.pooled, pushed(accum.samples.a \o accum.samples.b))
        /\ same_stat(accum.pooled, accum.reversed)

\* the same for every pair of sample sequences one of which has a sample
PoolIsConcatenationOfSamples ==
    (accum.op = "pool" /\ accum.samples.a \o accum.samples.b # <<>>) =>
        /\ same_stat(accum.pooled, pushed(accum.samples.a \o accum.samples.b))
        /\ same_stat(accum.pooled, accum.reversed)

\* C17: decay(alpha) leaves the mean, never increases the count, keeps it
\* at or above 1 when it was there and at or above 0 always, and moves the
\* sum of squared deviations toward 0, for every accumulator.
C17_DecayMonotone ==
    accum.op = "decay" =>
        /\ req(mean(accum.a), mean(accum.before))
        /\ ~rlt(count(accum.before), count(accum.a))
        /\ ~rlt(count(accum.a), R(0))
        /\ ~rlt(count(accum.before), R(1)) => ~rlt(count(accum.a), R(1))
        /\ ~rlt(accum.before.vk, accum.a.vk)
        /\ ~rlt(accum.a.vk, R(0))

\* the same for every accumulator that holds a sample
DecayMonotoneWithSamples ==
    (accum.op = "decay" /\ accum.samples.a # <<>>) =>
        /\ req(mean(accum.a), mean(accum.before))
        /\ ~rlt(count(accum.before), count(accum.a))
        /\ ~rlt(count(accum.a), R(1))
        /\ ~rlt(accum.before.vk, accum.a.vk)
        /\ ~rlt(accum.a.vk, R(0))


---------------------------------------------------------------------------
(***************************************************************************)
(* Profile_: assimilate and collect, and past_present_ratio (C18 - C20).   *)
(***************************************************************************)
\* the full accumulators of two tasks agree in count, mean and variance
SameFull(t, u, i) ==
    /\ req(count(t.estimates[i].full), count(u.estimates[i].full))
    /\ req(mean(t.estimates[i].full), mean(u.estimates[i].full))
    /\ req(variance(t.estimates[i].full), variance(u.estimates[i].full))

\* the profile after one assimilate of the task that holds every sample of
\* the assimilated task twice
AssimilatedOnce == assimilate(probe.base, probe.id, probe.doubled[probe.id], R(1))

AssimilatedTwice ==
    probe.op = "assimilate" /\ probe.repeat = 2 /\ probe.scale = R(1)

\* C18: assimilating a task with scale 1 twice gives every option the full
\* count, mean and variance of assimilating once the task with every sample
\* doubled.
C18_AssimilateTwice ==
    AssimilatedTwice =>
        \A i \in 1..profile[probe.id].count :
            SameFull(profile[probe.id], AssimilatedOnce[probe.id], i)

\* the same for the options that hold a sample in the task or in the profile
AssimilateTwiceWithSamples ==
    AssimilatedTwice =>
        \A i \in 1..profile[probe.id].count :
            (\/ has_data(past[probe.id].estimates[i].full)
             \/ /\ probe.id \in DOMAIN probe.base
                /\ has_data(probe.base[probe.id].estimates[i].full))
                => SameFull(profile[probe.id], AssimilatedOnce[probe.id], i)

\* the task that collect found, or the fresh task that it made
TaskBefore == IF probe.id \in DOMAIN probe.before THEN probe.before[probe.id]
              ELSE Task(TaskOptionCount)

\* C19: collect with a valid measurement adds one sample to the full and to
\* the recent accumulator of the measured option, adds one to data_count and
\* changes no other option and no other task; with an invalid measurement
\* it changes nothing and makes no task.
C19_CollectFrame ==
    probe.op = "collect" =>
        IF measurement_valid(probe.m)
        THEN LET new == profile[probe.id]
                 c   == probe.m.choice + 1
             IN  /\ DOMAIN profile = DOMAIN probe.before \cup {probe.id}
                 /\ new.data_count = TaskBefore.data_count + 1
                 /\ new.count = TaskBefore.count
                 /\ new.estimates[c].full = push(TaskBefore.estimates[c].full, probe.m.burden)
                 /\ new.estimates[c].recent = push(TaskBefore.estimates[c].recent, probe.m.burden)
                 /\ req(count(new.estimates[c].full),
                        radd(count(TaskBefore.estimates[c].full), R(1)))
                 /\ req(count(new.estimates[c].recent),
                        radd(count(TaskBefore.estimates[c].recent), R(1)))
                 /\ \A i \in 1..new.count :
                        i # c => new.estimates[i] = TaskBefore.estimates[i]
                 /\ \A x \in DOMAIN probe.before :
                        x # probe.id => profile[x] = probe.before[x]
        ELSE profile = probe.before

\* a measurement collected into a task that exists, after a decay of the
\* recent accumulators
C19_Witness ==
    /\ probe.op = "collect" /\ measurement_valid(probe.m)
    /\ probe.id \in DOMAIN probe.before
    /\ probe.decays > 0

\* a measurement collected into a task that exists beside another task
C19_WitnessOtherTask ==
    /\ probe.op = "collect" /\ measurement_valid(probe.m)
    /\ probe.id \in DOMAIN probe.before
    /\ DOMAIN probe.before # {probe.id}

\* an invalid measurement handed to collect
C19_WitnessInvalid ==
    /\ probe.op = "collect" /\ ~measurement_valid(probe.m)
    /\ probe.id \notin DOMAIN profile

\* some option of some task has samples in both profiles
Overlap ==
    \E p \in ratio_pairs(profile, past) :
        /\ has_data(profile[p[1]].estimates[p[2]].full)
        /\ has_data(past[p[1]].estimates[p[2]].full)

\* C20: past_present_ratio() is -1 exactly when no option has samples in
\* both profiles, and a positive finite number otherwise.
C20_RatioSign ==
    probe.op = "ratio" =>
        /\ req(probe.ratio, R(-1)) <=> ~Overlap
        /\ Overlap => (isfinite(probe.ratio) /\ rlt(R(0), probe.ratio))

\* the same when every mean of an option with samples in both profiles is
\* positive
RatioSignOfPositiveMeans ==
    (/\ probe.op = "ratio"
     /\ \A p \in ratio_pairs(profile, past) :
            (/\ has_data(profile[p[1]].estimates[p[2]].full)
             /\ has_data(past[p[1]].estimates[p[2]].full))
            => (/\ rlt(R(0), mean(profile[p[1]].estimates[p[2]].full))
                /\ rlt(R(0), mean(past[p[1]].estimates[p[2]].full))))
        => /\ req(probe.ratio, R(-1)) <=> ~Overlap
           /\ Overlap => (isfinite(probe.ratio) /\ rlt(R(0), probe.ratio))

\* past_present_ratio() never returns NaN
RatioIsANumber == probe.op = "ratio" => ~isnan(probe.ratio)

---------------------------------------------------------------------------
(***************************************************************************)
(* The estimates of decide (C21, C22, C28) and the anomaly sums of         *)
(* harvest (C26).                                                          *)
(***************************************************************************)
\* decide has built the knapsack of this update and has not returned
Estimated == upd.event = "update" /\ upd.estimated

\* the full accumulators of option i of the task of setting s that decide
\* read: of this run and of the past runs
curr_of(s, i) ==
    IF found(upd.seen, setting_id(s)) THEN upd.seen[setting_id(s)].estimates[i].full
    ELSE UNKNOWN_BURDEN

prev_of(s, i) ==
    IF found(past, setting_id(s)) THEN past[setting_id(s)].estimates[i].full
    ELSE UNKNOWN_BURDEN

\* prev.count + curr.count
samples_of(s, i) == radd(count(prev_of(s, i)), count(curr_of(s, i)))

\* the measurements that the options 1..n of a setting lack of the quota
RECURSIVE missing_of(_, _)
missing_of(s, n) ==
    IF n = 0 THEN R(0)
    ELSE radd(missing_of(s, n - 1),
              rmax(R(0), rsub(config.measure_quota, samples_of(s, n))))

\* the measurements that the two profiles hold of the task of a setting
total_of(s) ==
    (IF found(upd.seen, setting_id(s)) THEN upd.seen[setting_id(s)].data_count ELSE 0)
      + (IF found(past, setting_id(s)) THEN past[setting_id(s)].data_count ELSE 0)

\* data_missing / max(data_missing, data_total)
explore_factor(s) ==
    LET data_missing == missing_of(s, Len(setting_options(s)))
    IN  rdiv(data_missing, rmax(data_missing, R(total_of(s))))

\* C21: in decide, every option of a setting with profile data whose
\* sample count prev.count + curr.count is below measure_quota gets the
\* value of the setting's option plus explore_value and its estimated
\* burden multiplied by data_missing / max(data_missing, data_total), a
\* factor in [0, 1]; an option at or above the quota gets neither.
C21_ExploreIncentive ==
    Estimated =>
        \A k \in DOMAIN upd.estimates : upd.estimates[k].data =>
            \A i \in DOMAIN upd.estimates[k].options :
                LET s == upd.order[k]
                    o == upd.estimates[k].options[i]
                IN  IF rlt(samples_of(s, i), config.measure_quota)
                    THEN /\ o.value = setting_options(s)[i] + config.explore_value
                         /\ upd.estimates[k].unexplored_burden_mod = explore_factor(s)
                         /\ o.burden = burden_times(o.option_burden, explore_factor(s))
                         /\ ~rlt(explore_factor(s), R(0))
                         /\ ~rlt(R(1), explore_factor(s))
                    ELSE /\ o.value = setting_options(s)[i]
                         /\ o.burden = o.option_burden

\* the same for the settings whose blind guess and unexplored_burden_mod
\* decide computed in this call
ExploreIncentiveWhenComputed ==
    Estimated =>
        \A k \in DOMAIN upd.estimates :
            (upd.estimates[k].data /\ upd.estimates[k].computed) =>
                \A i \in DOMAIN upd.estimates[k].options :
                    LET s == upd.order[k]
                        o == upd.estimates[k].options[i]
                    IN  IF rlt(samples_of(s, i), config.measure_quota)
                        THEN /\ o.value = setting_options(s)[i] + config.explore_value
                             /\ upd.estimates[k].unexplored_burden_mod = explore_factor(s)
                             /\ o.burden = burden_times(o.option_burden, explore_factor(s))
                             /\ ~rlt(explore_factor(s), R(0))
                             /\ ~rlt(R(1), explore_factor(s))
                        ELSE /\ o.value = setting_options(s)[i]
                             /\ o.burden = o.option_burden

\* decide skipped the blind guess of a task of which an option is below the
\* quota, and the factor it applied is not the factor of the data
StaleIncentive ==
    /\ Estimated
    /\ \E k \in DOMAIN upd.estimates :
           /\ upd.estimates[k].data
           /\ ~upd.estimates[k].computed
           /\ \E i \in DOMAIN upd.estimates[k].options :
                  /\ rlt(samples_of(upd.order[k], i), config.measure_quota)
                  /\ upd.estimates[k].unexplored_burden_mod # explore_factor(upd.order[k])

\* the blind guess of a setting: the lightest burden that the loop of
\* decide finds among the options with samples
blind_guess_of(s) ==
    blind_loop(upd.seen, past, setting_id(s),
               past_present_ratio(upd.seen, past), anomaly, config,
               Len(setting_options(s))).lightest

\* the prior burden of option i: the past stat scaled by ratio when past data
\* exists, the blind guess otherwise
prior_of(s, i) ==
    IF has_data(prev_of(s, i))
    THEN burden_times(burden_norm(prev_of(s, i)), past_present_ratio(upd.seen, past))
    ELSE blind_guess_of(s)

\* curr.count / quota
mix_of(s, i) == rdiv(count(curr_of(s, i)), config.measure_quota)

\* the interpolation between a burden of this run and the prior burden
interpolated(s, i, current) ==
    burden_plus(burden_times(current, mix_of(s, i)),
                burden_times(prior_of(s, i), rsub(R(1), mix_of(s, i))))

\* C22: the estimated burden of an option with samples of this run below the
\* quota is mix * (curr.burden_norm() scaled by anomaly.recent)
\* + (1 - mix) * prior_burden with mix = curr.count / quota, and the
\* estimate of an option with curr.count >= quota is recent.burden_norm().
\* The blind guess is the one that decide computes in the same call.
C22_BurdenEstimate ==
    Estimated =>
        \A k \in DOMAIN upd.estimates :
            (upd.estimates[k].data /\ upd.estimates[k].computed) =>
                \A i \in DOMAIN upd.estimates[k].options :
                    LET s == upd.order[k]
                        o == upd.estimates[k].options[i]
                    IN  has_data(curr_of(s, i)) =>
                            IF rlt(count(curr_of(s, i)), config.measure_quota)
                            THEN o.option_burden =
                                     interpolated(s, i,
                                         burden_times(burden_norm(curr_of(s, i)),
                                                      anomaly.recent))
                            ELSE o.burden =
                                     burden_norm(upd.seen[setting_id(s)].estimates[i].recent)

\* the interpolation that decide computes: curr.burden_norm() is not scaled
InterpolatesUnscaled ==
    Estimated =>
        \A k \in DOMAIN upd.estimates :
            (upd.estimates[k].data /\ upd.estimates[k].computed) =>
                \A i \in DOMAIN upd.estimates[k].options :
                    LET s == upd.order[k]
                        o == upd.estimates[k].options[i]
                    IN  has_data(curr_of(s, i)) =>
                            IF rlt(count(curr_of(s, i)), config.measure_quota)
                            THEN o.option_burden =
                                     interpolated(s, i, burden_norm(curr_of(s, i)))
                            ELSE o.burden =
                                     burden_norm(upd.seen[setting_id(s)].estimates[i].recent)

\* an option below the quota is interpolated while the anomaly is not 1 and
\* the burden of this run is not zero
InterpolatedUnderAnomaly ==
    /\ Estimated
    /\ anomaly.recent # R(1)
    /\ \E k \in DOMAIN upd.estimates :
           /\ upd.estimates[k].data
           /\ upd.estimates[k].computed
           /\ \E i \in DOMAIN upd.estimates[k].options :
                  /\ has_data(curr_of(upd.order[k], i))
                  /\ rlt(count(curr_of(upd.order[k], i)), config.measure_quota)
                  /\ rlt(R(0), mean(curr_of(upd.order[k], i)))

\* the (id, option) of a collected measurement had samples when update was
\* called
sampled_before(c) ==
    has_data(stat_before(setting_id(c.setting), c.measure.choice + 1).full)

\* the sum of the clamped burdens of collected measurements
RECURSIVE sum_of_burdens(_)
sum_of_burdens(C) ==
    IF C = {} THEN R(0)
    ELSE LET c == CHOOSE x \in C : TRUE
         IN  radd(c.measure.burden, sum_of_burdens(C \ {c}))

\* C26: in harvest only the measurements whose own (id, option) already has
\* samples contribute to the anomaly sums: sum_current is the sum of their
\* burdens and sum_typical the sum of their prior full means, and a harvest
\* that collects no such measurement leaves anomaly.latest as it was.
C26_AnomalyOfSampledOptions ==
    HarvestReturned =>
        LET sampled == {c \in upd.collected : sampled_before(c)}
        IN  /\ upd.sum_current = sum_of_burdens(sampled)
            /\ upd.sum_typical = sum_of_typical(sampled)
            /\ sampled = {} => anomaly.latest = upd.anomaly_before.latest

\* what harvest sums: the burdens of the measurements whose task is in the
\* profile, whether the measured option has samples or not
AnomalyOfKnownTasks ==
    HarvestReturned =>
        LET known == {c \in upd.collected : c.entry}
        IN  /\ upd.sum_current = sum_of_burdens(known)
            /\ upd.sum_typical = sum_of_typical(known)

\* a measurement of an option without samples, in a task of which another
\* option has samples, was harvested with a burden above zero
UnsampledOptionHarvested ==
    /\ HarvestReturned
    /\ \E c \in upd.collected :
           /\ c.entry
           /\ ~sampled_before(c)
           /\ rlt(R(0), c.measure.burden)
           /\ \E i \in 1..Len(setting_options(c.setting)) :
                  has_data(stat_before(setting_id(c.setting), i).full)

\* C28: whenever decide uses the cached fully_explored flag of a task to skip
\* the computation of the blind guess, every option of the task has
\* prev.count + curr.count >= measure_quota.
C28_CacheIsValid ==
    Estimated =>
        \A k \in DOMAIN upd.estimates :
            (upd.estimates[k].data /\ ~upd.estimates[k].computed) =>
                \A i \in DOMAIN upd.estimates[k].options :
                    ~rlt(samples_of(upd.order[k], i), config.measure_quota)

\* the flag that decide leaves in the profile is never true while an option
\* of the task is below the quota with the profiles that decide read
FlagValidAfterDecide ==
    Estimated =>
        \A k \in DOMAIN upd.estimates :
            (upd.estimates[k].data /\ upd.estimates[k].fully_explored) =>
                \A i \in DOMAIN upd.estimates[k].options :
                    ~rlt(samples_of(upd.order[k], i), config.measure_quota)

\* decide skipped the blind guess and the estimate of an option without
\* past samples, which is read from blind_guess, is the uninitialised value
UncomputedGuessRead ==
    /\ Estimated
    /\ \E k \in DOMAIN upd.estimates :
           /\ upd.estimates[k].data
           /\ ~upd.estimates[k].computed
           /\ \E i \in DOMAIN upd.estimates[k].options :
                  /\ ~has_data(prev_of(upd.order[k], i))
                  /\ ~has_data(curr_of(upd.order[k], i))
                  /\ upd.estimates[k].options[i].option_burden \in Uninitialised
                  /\ upd.estimates[k].options[i].option_burden
                         # blind_guess_of(upd.order[k])

---------------------------------------------------------------------------
(***************************************************************************)
(* The sample counts of a task (C29) and pooling with empty accumulators   *)
(* (C30).                                                                  *)
(***************************************************************************)
\* the sum of full.count over the options 1..n of a task
RECURSIVE full_count(_, _)
full_count(task, n) ==
    IF n = 0 THEN R(0)
    ELSE radd(full_count(task, n - 1), count(task.estimates[n].full))

\* C29: in every profile reached by collect and assimilate, the data_count of
\* every task is the number of samples in the task's full accumulators.
C29_DataCountIsSampleCount ==
    \A id \in DOMAIN profile :
        R(profile[id].data_count) = full_count(profile[id], profile[id].count)

\* the same for a profile that was reached by collect alone
DataCountOfCollected ==
    /\ \A id \in DOMAIN past :
           R(past[id].data_count) = full_count(past[id], past[id].count)
    /\ probe.assimilations = 0 =>
           \A id \in DOMAIN profile :
               R(profile[id].data_count) = full_count(profile[id], profile[id].count)

\* assimilate adds the samples of the source to the full accumulators and
\* leaves data_count as it was
AssimilateKeepsDataCount ==
    (probe.op = "assimilate" /\ probe.repeat = 1) =>
        /\ profile[probe.id].data_count =
               IF found(probe.base, probe.id) THEN probe.base[probe.id].data_count
               ELSE 0
        /\ full_count(profile[probe.id], profile[probe.id].count) =
               radd(IF found(probe.base, probe.id)
                    THEN full_count(probe.base[probe.id], probe.base[probe.id].count)
                    ELSE R(0),
                    full_count(past[probe.id], past[probe.id].count))

\* a task with samples was assimilated
AssimilatedSamples ==
    /\ probe.op = "assimilate"
    /\ rlt(R(0), full_count(past[probe.id], past[probe.id].count))

\* assimilate has just created the task of an id that the profile lacked
AssimilatedIntoNew ==
    probe.op = "assimilate" /\ probe.repeat = 1 /\ ~found(probe.base, probe.id)

\* collect has just pushed a burden into a full accumulator without samples
\* of a task that the profile had
CollectedIntoEmpty ==
    /\ probe.op = "collect"
    /\ measurement_valid(probe.m)
    /\ found(probe.before, probe.id)
    /\ count(probe.before[probe.id].estimates[probe.m.choice + 1].full) = R(0)

\* C30: pooling never divides by zero: assimilate(id, task, s) into a
\* profile that lacks id gives every option, also one without samples, the
\* full count, mean and sum of squares of the source scaled by s, and a
\* later collect into an option without samples gives it the mean of the
\* collected burden.
C30_PoolWithEmpty ==
    /\ AssimilatedIntoNew =>
           \A i \in 1..profile[probe.id].count :
               same_stat(profile[probe.id].estimates[i].full,
                         scale(past[probe.id].estimates[i].full, probe.scale))
    /\ CollectedIntoEmpty =>
           req(mean(profile[probe.id].estimates[probe.m.choice + 1].full),
               probe.m.burden)

\* the same for the options of which the source holds samples, and for a
\* collect into an accumulator whose mean is a number
PoolWithOneEmpty ==
    /\ AssimilatedIntoNew =>
           \A i \in 1..profile[probe.id].count :
               has_data(past[probe.id].estimates[i].full) =>
                   same_stat(profile[probe.id].estimates[i].full,
                             scale(past[probe.id].estimates[i].full, probe.scale))
    /\ (/\ CollectedIntoEmpty
        /\ ~isnan(mean(probe.before[probe.id].estimates[probe.m.choice + 1].full))) =>
           req(mean(profile[probe.id].estimates[probe.m.choice + 1].full),
               probe.m.burden)

\* a burden was collected into an option that assimilate had pooled from two
\* accumulators without samples, and the mean is not a number
CollectedIntoNaN ==
    /\ CollectedIntoEmpty
    /\ isnan(mean(probe.before[probe.id].estimates[probe.m.choice + 1].full))
    /\ isnan(mean(profile[probe.id].estimates[probe.m.choice + 1].full))

---------------------------------------------------------------------------
(***************************************************************************)
(* The table of minimums, the reconstruction and the scores (C23, C24,     *)
(* C25, C27).                                                              *)
(***************************************************************************)
\* _compute_minimums has filled the table of this call
Computed == pc \in {"select", "reconstruct", "sum", "done"} /\ minimums.row_end # <<>>

\* the assignments to the first i decisions of the vector that use possible
\* options of non-negative score
PrefixAssignments(i) ==
    {f \in [1..i -> 0..(SetMax({option_count(decision[id]) : id \in DOMAIN decision}
                               \cup {1}) - 1)] :
        \A k \in 1..i :
            /\ f[k] < option_count(decision[decisions[k]])
            /\ possible(economy, decision[decisions[k]].options[f[k] + 1])
            /\ decision[decisions[k]].options[f[k] + 1].score >= 0}

\* net burden and net score of an assignment to the first i decisions
PrefixStats(f, i) ==
    chosen_stats(economy,
                 [id \in DOMAIN decision |->
                     [decision[id] EXCEPT !.choice =
                         IF \E k \in 1..i : decisions[k] = id
                         THEN f[CHOOSE k \in 1..i : decisions[k] = id]
                         ELSE 0]],
                 SubSeq(decisions, 1, i))

\* the net burdens of the assignments to the first i decisions that have
\* the net score s and are within the capacity
PrefixBurdens(i, s) ==
    {st.net_burden : st \in {x \in {PrefixStats(f, i) : f \in PrefixAssignments(i)} :
                                x.net_score = s /\ WithinCapacity(x.net_burden)}}

\* the entries of row i (from 1) of the table that have the net score s
RowEntries(i, s) ==
    {minimums.store[p] : p \in {q \in (row_begin(minimums, i - 1) + 1)
                                          ..row_finish(minimums, i - 1) :
                                  minimums.store[q].net_score = s}}

NonNegativeBurdens ==
    \A id \in DOMAIN decision : \A k \in DOMAIN decision[id].options :
        decision[id].options[k].burden >= 0

MaxNetScore == Len(decisions) * precision + Len(decisions)

LastRow ==
    {minimums.store[p] : p \in (row_begin(minimums, Len(minimums.row_end) - 1) + 1)
                                   ..row_finish(minimums, Len(minimums.row_end) - 1)}

\* C24: in the normal economy the table loses no solution by keeping, per
\* score, the candidate of the lowest mean: for every complete assignment
\* that is acceptable under (limit, sigmas) the last row holds an
\* acceptable entry of at least its net score, and decide() returns true
\* with valid choices whenever the lightest assignment is acceptable.
C24_NoSolutionLost ==
    /\ (economy = "normal" /\ Computed) =>
           \A f \in Feasible :
               \E m \in LastRow :
                   /\ m.net_score >= AssignmentStats(f).net_score
                   /\ WithinCapacity(m.net_burden)
    /\ (economy = "normal" /\ Returned /\ WithinCapacity(stats.lightest.net_burden)) =>
           /\ result = TRUE
           /\ \A id \in DOMAIN decision :
                  decision[id].choice < option_count(decision[id])

\* the second half alone: true and valid choices whenever the lightest
\* assignment is acceptable
TrueWhenLightestAcceptable ==
    (economy = "normal" /\ Returned /\ WithinCapacity(stats.lightest.net_burden)) =>
        /\ result = TRUE
        /\ \A id \in DOMAIN decision :
               decision[id].choice < option_count(decision[id])

\* every entry of the table is acceptable
EntriesAcceptable ==
    (economy = "normal" /\ Computed) =>
        \A p \in DOMAIN minimums.store : WithinCapacity(minimums.store[p].net_burden)

\* decide() returned a net score below that of an acceptable assignment
SolutionLost ==
    /\ economy = "normal"
    /\ ReturnedByReconstruction
    /\ result = TRUE
    /\ \E f \in Feasible :
           AssignmentStats(f).net_score > AssignmentStats(Choices).net_score

\* the entry of the last row that decide() selected
Selected ==
    minimums_decide(economy, minimums, capacity, Len(minimums.row_end) - 1)

\* the net score of the selected entry less the scores of the choices that
\* the reconstruction has written, those of the decisions after the first k
RECURSIVE Residual(_)
Residual(k) ==
    IF k >= Len(decisions) THEN Selected.net_score
    ELSE Residual(k + 1) - chosen(decision[decisions[k + 1]]).score

\* C25: during the reconstruction every lookup minimums(i-1, next_score)
\* returns a valid entry whose net_score is next_score and whose choice is
\* an index of the decision, at decision 0 the residual score is zero, the
\* burdens of the reconstructed choices sum to the net burden of the
\* selected entry of the last row, and no assert of decide() fails.
C25_ReconstructionExact ==
    /\ pc # "undefined"
    /\ pc = "reconstruct" =>
           /\ valid(solution)
           /\ solution.net_score = Residual(index)
           /\ index >= 1
           /\ solution.choice < option_count(decision[decisions[index]])
    /\ (pc \in {"sum", "done"} /\ minimums.row_end # <<>>) =>
           /\ Residual(0) = 0
           /\ AssignmentStats(Choices).net_burden = Selected.net_burden
           /\ WithinCapacity(AssignmentStats(Choices).net_burden)

\* the same for the problems without a burden below zero
ReconstructionExactNonNegative ==
    (\A id \in DOMAIN decision : \A k \in DOMAIN decision[id].options :
         IF economy = "scalar" THEN decision[id].options[k].burden >= 0
         ELSE decision[id].options[k].burden.mean >= 0) =>
        C25_ReconstructionExact

\* a lookup in a row of more than one entry returned an entry of a score
\* above zero
LookupAboveZero ==
    /\ pc = "reconstruct"
    /\ index >= 1
    /\ index < Len(decisions)
    /\ solution.net_score > 0
    /\ row_finish(minimums, index - 1) - row_begin(minimums, index - 1) >= 2

\* the last row of the table is empty and the reconstruction starts from an
\* entry without a choice
ReconstructsFromNoChoice ==
    /\ pc = "reconstruct"
    /\ index = Len(decisions)
    /\ ~valid(solution)
    /\ LastRow = {}

\* _prepare has run: the scores of the options are written
Prepared == pc \in {"shortcuts", "compute", "reconstruct", "sum", "done"}

\* C27 as stated: after the preparation every score is an integer that is
\* not negative, and the score of every possible option is at most the
\* clamped precision.
C27_ScoresAsStated ==
    Prepared =>
        /\ precision >= MinPrecision
        /\ \A id \in DOMAIN decision : \A k \in DOMAIN decision[id].options :
               LET option == decision[id].options[k]
               IN  /\ option.score \in Nat
                   /\ possible(economy, option) => option.score <= precision

\* every score is an integer; the score of an option whose value is not below
\* that of the lightest option of its decision is not negative, the score of
\* an option whose value is below it by max_value_range / precision or more
\* is negative, and the score of a possible option is at most one above the
\* clamped precision, which is at least 4
ScoresNearPrecision ==
    Prepared =>
        /\ precision >= MinPrecision
        /\ \A id \in DOMAIN decision : \A k \in DOMAIN decision[id].options :
               LET option    == decision[id].options[k]
                   value_min == option_min(decision[id]).value
                   range     == max_value_range(economy, decision, decisions)
               IN  /\ option.score \in Int
                   /\ option.value >= value_min => option.score >= 0
                   /\ (value_min - option.value) * precision >= range =>
                          option.score < 0
                   /\ possible(economy, option) => option.score <= precision + 1

\* a prepared problem with a possible option whose score is above the
\* precision
ScoreAbovePrecision ==
    /\ Prepared
    /\ \E id \in DOMAIN decision : \E j \in DOMAIN decision[id].options :
           /\ possible(economy, decision[id].options[j])
           /\ decision[id].options[j].score > precision

\* a prepared problem with an option of a score below zero
ScoreBelowZero ==
    /\ Prepared
    /\ \E id \in DOMAIN decision : \E k \in DOMAIN decision[id].options :
           decision[id].options[k].score < 0

===========================================================================
